---- MODULE Spec2Model ----
(***************************************************************************)
(* A state-machine model of the ratnet core: the DefaultRouter with its    *)
(* recent buffer (router/default.go), the qldb node's Forward / Handle /   *)
(* Pickup / Dropoff (nodes/qldb), the db node's send / sendBulk and the    *)
(* Poll policy's cursors (policy/poll.go).                                 *)
(*                                                                         *)
(* Byte strings are sequences of 0..255.  A channel name is the sequence   *)
(* of its character codes.  Keys are small integers.                       *)
(***************************************************************************)
EXTENDS Integers, Sequences, FiniteSets, TLC

VARIABLES
  recentPageIdx,   \* [node -> 0..7]              recentBuffer.recentPageIdx
  recentBuffer,    \* [node -> [0..7 -> set of nonces]]  recentBuffer.recentBuffer
  router,          \* [node -> record of the nine DefaultRouter flags]
  Patches,         \* [node -> sequence of [From, To]]   DefaultRouter.Patches
  outbox,          \* [node -> sequence of [channel, msg, timestamp]]  the outbox table
  channels,        \* [node -> [name -> key]]   the channels table of the store
  channelKeys,     \* [node -> [name -> key]]   Node.channelKeys, the in-memory cache
  profiles,        \* [node -> sequence of [Name, Enabled]]  the profiles table
  Out,             \* [node -> sequence of api.Msg delivered on Out()]
  receivers,       \* [node -> number of consumers blocked receiving on Out()]
  now,             \* the wall clock, time.Now().UnixNano()
  rnd,             \* how many random nonces the key store has drawn so far
  isRunning,       \* Poll.isRunning
  lastPollLocal,   \* Poll.lastPollLocal
  lastPollRemote,  \* Poll.lastPollRemote
  SyncBacklog,     \* Poll.SyncBacklog
  got,             \* the messages the polling caller has received so far
  backlog,         \* the rows that were in the outbox when RunPolicy ran
  bundle,          \* the api.Bundle in flight: the result of the last Pickup
  last,            \* the record of the last call made to a node
  prev,            \* the record of the call before it
  workers,         \* the goroutines RunPolicy has started: a sequence of positions
  stopCall,        \* the call of Poll.Stop: "none", "waiting" in wg.Wait(), "returned"
  nmsgs,           \* how many distinct messages the remote peers have sent so far
  tracked,         \* the message whose nonce is followed through the recent buffer
  gap,             \* seenRecently calls with other nonces since the tracked one's
  calls,           \* [goroutine -> its seenRecently call on N1's router: position, locals]
  nodeIsRunning,   \* Node.isRunning of N1
  inputLoops,      \* the input loops Node.Start has started: a sequence of positions
  In,              \* the messages the application has put on N1's In()
  nodeStop         \* the call of Node.Stop: "none", "stopping", "returned"

vars == <<recentPageIdx, recentBuffer, router, Patches, outbox, channels,
          channelKeys, profiles, Out, receivers, now, rnd, isRunning,
          lastPollLocal, lastPollRemote, SyncBacklog, got, backlog, bundle,
          last, prev, workers, stopCall, nmsgs, tracked, gap, calls, nodeIsRunning,
          inputLoops, In, nodeStop>>

-----------------------------------------------------------------------------
(* Program constants *)

recentBufferSize == 8
cacheSize == 256
entriesPerTable == cacheSize \div recentBufferSize
nonceSize == 32
LuggageTagSize == 64
PickupLimit == 250
MinMsgLen == 16
MaxUint16 == 65535
DefaultChunkSize == 65536
ChunkHeaderSize == 8

(* Bounds of the model *)

MaxLoopNonces == 34 \* distinct nonces routed in the loop-detection runs
MaxRoutes == 2      \* Route calls per behaviour in the policy-matrix runs
MaxSends == 2       \* Send / SendChannel / SendBulk / Forward calls per behaviour
MaxPolicyRuns == 1  \* RunPolicy calls per behaviour
SmallBatch == 2     \* messages in a small SendBulk batch
MaxPayload == 12    \* bytes of the payloads handed to SendChunked
MaxPolicies == 2    \* policies of the node ChunkSize is computed for
MaxRepeats == 3     \* Route calls in a row that repeat a message first seen in the run

Nodes == {"N1", "N2"}

(* Channel names, as character codes: "a", "b", "c" and the invalid "-" *)
chNone == <<>>
chAlpha == <<97>>
chBeta == <<98>>
chGamma == <<99>>
chBad == <<45>>

(* Keys.  ContentKey(n) is node.contentKey, RoutingKey(n) node.routingKey; *)
(* a public key is identified with its private key.                        *)
KeyOf(owner) ==
  CASE owner = "N1" -> 1 [] owner = "N2" -> 2
    [] owner = "N1 routing" -> 11 [] owner = "N2 routing" -> 12
    [] owner = "alpha" -> 21 [] owner = "other" -> 99
ContentKey(n) == KeyOf(n)
RoutingKey(n) == IF n = "N1" THEN KeyOf("N1 routing") ELSE KeyOf("N2 routing")
KeyAlpha == KeyOf("alpha")
KeyOther == KeyOf("other")

NoErr == "nil"

-----------------------------------------------------------------------------
(* Bytes *)

Min(a, b) == IF a < b THEN a ELSE b

\* message[from:] of Go, with from a 0-based offset
SliceFrom(message, from) == SubSeq(message, from + 1, Len(message))

\* message[from:to] of Go
Slice(message, from, to) == SubSeq(message, from + 1, to)

\* the element of a one-element set.  {F(x) : x \in {e}} is F(e) with e
\* computed once, before F: the loops below are folded this way, in halves
Only(S) == CHOOSE x \in S : TRUE

\* t := uint16(len(channelName)); []byte{byte(t >> 8), byte(t & 0xFF)}
LenPrefix(channelName) ==
  LET t == Len(channelName) % 65536
  IN  <<(t \div 256) % 256, t % 256>>

\* the framing shared by Forward, send and sendBulk: chanLen || chanName || body
Frame(channelName, body) == LenPrefix(channelName) \o channelName \o body

\* the i-th random 32-byte nonce drawn by the key store
NonceBytes(i) ==
  [k \in 1..nonceSize |-> IF k = nonceSize THEN i % 256
                          ELSE IF k = nonceSize - 1 THEN (i \div 256) % 256
                          ELSE 0]

KeyTag(key) == [k \in 1..(LuggageTagSize - nonceSize) |-> IF k = 1 THEN key ELSE 0]

Mac(plain) == Len(plain) % 251

\* KeyPair.EncryptMessage(plain, destkey): nonce || key tag || plaintext || mac
EncryptMessage(plain, destkey, nonceId) ==
  NonceBytes(nonceId) \o KeyTag(destkey) \o plain \o <<Mac(plain)>>

\* a body whose integrity check fails after the quick tag has matched
CorruptBody(plain, destkey, nonceId) ==
  NonceBytes(nonceId) \o KeyTag(destkey) \o plain \o <<(Mac(plain) + 1) % 251>>

\* KeyPair.DecryptMessage(message) -> (tagOK, clear, err)
DecryptMessage(key, message) ==
  LET tagOK == Len(message) >= LuggageTagSize /\ message[nonceSize + 1] = key
      plain == IF Len(message) > LuggageTagSize
               THEN SubSeq(message, LuggageTagSize + 1, Len(message) - 1)
               ELSE <<>>
      good  == Len(message) > LuggageTagSize /\ message[Len(message)] = Mac(plain)
  IN  IF ~tagOK THEN [tagOK |-> FALSE, clear |-> <<>>, err |-> NoErr]
      ELSE IF ~good THEN [tagOK |-> TRUE, clear |-> <<>>, err |-> "decrypt failed"]
      ELSE [tagOK |-> TRUE, clear |-> plain, err |-> NoErr]

-----------------------------------------------------------------------------
(* router/default.go: the recent buffer.  r is [rb, idx]: the generations   *)
(* and recentPageIdx.                                                      *)

newRecentBuffer == [i \in 0..(recentBufferSize - 1) |-> {}]

hasMsgBeenSeen(rb, nonce) == \E i \in DOMAIN rb : nonce \in rb[i]

resetRecentPageIfFull_Keeps(rb, idx) ==
  [rb |-> rb, isFull |-> Cardinality(rb[idx]) >= entriesPerTable]

\* returns the generations after the call and whether generation idx was full
resetRecentPageIfFull(rb, idx) ==
  LET isFull == Cardinality(rb[idx]) >= entriesPerTable
  IN  [rb |-> IF isFull THEN [rb EXCEPT ![idx] = {}] ELSE rb, isFull |-> isFull]

setMsgSeen(rb, idx, nonce) == [rb EXCEPT ![idx] = @ \cup {nonce}]

\* lines 68-74: the generation in use after the reset
nextRecentPage(idx, isFull) ==
  IF isFull THEN (IF idx < recentBufferSize - 1 THEN idx + 1 ELSE 0) ELSE idx

seenInsert_Forgets(seen, rb, idx2, nonce) ==
  [rb |-> rb, idx |-> idx2, seen |-> seen]

\* lines 76-79: the nonce goes into generation idx2 unless it was seen
seenInsert(seen, rb, idx2, nonce) ==
  [rb |-> IF ~seen THEN setMsgSeen(rb, idx2, nonce) ELSE rb, idx |-> idx2, seen |-> seen]

\* lines 66-80, with rs the result of resetRecentPageIfFull
seenAfterReset(seen, rs, idx, nonce) ==
  seenInsert(seen, rs.rb, nextRecentPage(idx, rs.isFull), nonce)

seenRecently(r, nonce) ==
  seenAfterReset(hasMsgBeenSeen(r.rb, nonce), resetRecentPageIfFull(r.rb, r.idx),
                 r.idx, nonce)

-----------------------------------------------------------------------------
(* The mutable state a call works on: s = [rb, idx, outbox, Out, recv, now,  *)
(* outboxErr].  outboxErr says that the store fails on the outbox table      *)
(* during the call.                                                          *)

NodeState(n, outboxErr) ==
  [rb |-> recentBuffer[n], idx |-> recentPageIdx[n], outbox |-> outbox[n],
   Out |-> Out[n], recv |-> receivers[n], now |-> now, outboxErr |-> outboxErr]

ContentName == <<91, 99, 111, 110, 116, 101, 110, 116, 93>>   \* "[content]"

Forward_NoCheck(s, channelName, message, dt) ==
  [s |-> [s EXCEPT !.outbox = Append(@, [channel |-> channelName,
                                          msg |-> Frame(channelName, message),
                                          timestamp |-> s.now]),
                   !.now = s.now + dt],
   err |-> NoErr]

\* nodes/qldb/internal.go Forward: frame, then insert unless (channel, msg) is there.
\* dt is how far the clock moves while the row is written.
Forward(s, channelName, message, dt) ==
  LET framed == Frame(channelName, message)
      there  == \E i \in DOMAIN s.outbox :
                   s.outbox[i].channel = channelName /\ s.outbox[i].msg = framed
  IN  IF s.outboxErr THEN [s |-> s, err |-> "store error"]
      ELSE IF there THEN [s |-> s, err |-> NoErr]
      ELSE [s |-> [s EXCEPT !.outbox = Append(@, [channel |-> channelName,
                                                   msg |-> framed,
                                                   timestamp |-> s.now]),
                            !.now = s.now + dt],
            err |-> NoErr]

ClearMsg(channelName, content) ==
  [Name |-> IF Len(channelName) > 0 THEN channelName ELSE ContentName,
   IsChan |-> Len(channelName) > 0,
   Content |-> content]

HandleDecrypted_Queues(s, channelName, d) ==
  IF ~d.tagOK \/ d.err # NoErr
  THEN [s |-> s, tagOK |-> d.tagOK, err |-> d.err]
  ELSE [s |-> [s EXCEPT !.Out = Append(@, ClearMsg(channelName, d.clear)),
                        !.recv = IF @ > 0 THEN @ - 1 ELSE 0],
        tagOK |-> TRUE, err |-> NoErr]

\* Handle after DecryptMessage has returned d: the clear message is offered to
\* Out, and taken when a receiver is waiting
HandleDecrypted(s, channelName, d) ==
  IF ~d.tagOK \/ d.err # NoErr
  THEN [s |-> s, tagOK |-> d.tagOK, err |-> d.err]
  ELSE IF s.recv > 0
  THEN [s |-> [s EXCEPT !.Out = Append(@, ClearMsg(channelName, d.clear)),
                        !.recv = @ - 1],
        tagOK |-> TRUE, err |-> NoErr]
  ELSE [s |-> s, tagOK |-> TRUE, err |-> NoErr]

\* Node.Handle: decrypt with the channel key or the content key, offer to Out
Handle(n, s, channelName, message) ==
  IF Len(channelName) > 0 /\ channelName \notin DOMAIN channelKeys[n]
  THEN [s |-> s, tagOK |-> FALSE, err |-> "Cannot Handle message for Unknown Channel"]
  ELSE HandleDecrypted(s, channelName,
                       DecryptMessage(IF Len(channelName) > 0
                                      THEN channelKeys[n][channelName]
                                      ELSE ContentKey(n), message))

\* Node.GetChannel: chn != nil && err == nil exactly when the store has the channel
GetChannel(n, name) == name \in DOMAIN channels[n]

(* A routing context c = [s, err, handles, forwards, routes]: the state, the *)
(* error Route is about to return, and the calls made so far.               *)

NewCtx(s) == [s |-> s, err |-> NoErr, handles |-> <<>>, forwards |-> <<>>, routes |-> <<>>]

\* the context after one node.Forward call has returned f
ForwardNoted(c, path, channelName, f) ==
  [c EXCEPT !.s = f.s, !.err = f.err,
            !.forwards = Append(@, [path |-> path, channel |-> channelName,
                                    err |-> f.err])]

RECURSIVE ForwardEach(_, _, _, _, _, _)

ForwardNext_GoesOn(c, path, to, i, message, dt) ==
  ForwardEach(c, path, to, i + 1, message, dt)

\* default.go lines 159-161: return on the first error
ForwardNext(c, path, to, i, message, dt) ==
  IF c.err # NoErr THEN c ELSE ForwardEach(c, path, to, i + 1, message, dt)

\* the loop over the channels to[i..]
ForwardEach(c, path, to, i, message, dt) ==
  IF i > Len(to) THEN c
  ELSE ForwardNext(ForwardNoted(c, path, to[i], Forward(c.s, to[i], message, dt)),
                   path, to, i, message, dt)

\* the patch forward uses for channelName: the first whose From is channelName
FirstPatch(n, channelName) ==
  LET hits == {i \in DOMAIN Patches[n] : Patches[n][i].From = channelName}
  IN  Patches[n][CHOOSE i \in hits : \A j \in hits : i <= j]

RouteNoted(c, path, channelName, message) ==
  [c EXCEPT !.routes = Append(@, [path |-> path, channel |-> channelName,
                                  body |-> message])]

forward_FallsThrough(n, c, path, channelName, message, dt) ==
  ForwardEach(RouteNoted(c, path, channelName, message), path,
              (IF \E i \in DOMAIN Patches[n] : Patches[n][i].From = channelName
               THEN FirstPatch(n, channelName).To ELSE <<>>) \o <<channelName>>,
              1, message, dt)

\* DefaultRouter.forward: the first patch whose From is channelName, else the channel itself
forward(n, c, path, channelName, message, dt) ==
  IF \E i \in DOMAIN Patches[n] : Patches[n][i].From = channelName
  THEN ForwardEach(RouteNoted(c, path, channelName, message), path,
                   FirstPatch(n, channelName).To, 1, message, dt)
  ELSE ForwardEach(RouteNoted(c, path, channelName, message), path,
                   <<channelName>>, 1, message, dt)

\* the context after one node.Handle call has returned h
HandleNoted(c, path, channelName, body, h) ==
  [c EXCEPT !.s = h.s, !.err = h.err,
            !.handles = Append(@, [path |-> path, channel |-> channelName,
                                   body |-> body, tagOK |-> h.tagOK,
                                   err |-> h.err])]

\* one node.Handle call made by Route, recorded in the context
RouteHandle(n, c, path, channelName, body) ==
  HandleNoted(c, path, channelName, body, Handle(n, c.s, channelName, body))

Consumed(c, path) ==
  \E i \in DOMAIN c.handles :
      c.handles[i].path = path /\ c.handles[i].tagOK /\ c.handles[i].err = NoErr

ShouldForward_NoConsumedTest(consumed, forwardUnknown, forwardConsumed) ==
  (~consumed /\ forwardUnknown) \/ forwardConsumed

\* the forwarding decision of lines 208, 222 and 250
ShouldForward(consumed, forwardUnknown, forwardConsumed) ==
  (~consumed /\ forwardUnknown) \/ (consumed /\ forwardConsumed)

\* line 199: Handle is tried for a channel message
ChannelIsChecked(n, channelName) ==
  router[n].CheckChannels /\ GetChannel(n, channelName)

\* lines 205-211: after the Handle attempt
ChannelForward(n, c, channelName, body, dt) ==
  IF c.err # NoErr THEN c
  ELSE IF ShouldForward(Consumed(c, "channels"), router[n].ForwardUnknownChannels,
                        router[n].ForwardConsumedChannels)
  THEN forward(n, c, "channels", channelName, body, dt)
  ELSE c

\* lines 199-204 for a channel name and body
ChannelCheck(n, s, channelName, body, dt) ==
  ChannelForward(n, IF ChannelIsChecked(n, channelName)
                    THEN RouteHandle(n, NewCtx(s), "channels", channelName, body)
                    ELSE NewCtx(s),
                 channelName, body, dt)

\* Route, lines 194-212: the channel message
RouteChannel(n, s, message, idx, channelLen, dt) ==
  ChannelCheck(n, s, Slice(message, 2, 2 + channelLen), SliceFrom(message, idx), dt)

RECURSIVE ProfileLoop(_, _, _, _)

\* lines 238-246, after the Handle call for profile i
ProfileNext(n, c, i, body) ==
  IF c.err # NoErr THEN c
  ELSE IF c.handles[Len(c.handles)].tagOK THEN c
  ELSE ProfileLoop(n, c, i + 1, body)

ProfileLoop_NoSkip(n, c, i, body) ==
  IF i > Len(profiles[n]) THEN c
  ELSE ProfileNext(n, RouteHandle(n, c, "profiles", chNone, body), i, body)

\* Route, lines 235-248: one Handle per enabled profile, until one succeeds
ProfileLoop(n, c, i, body) ==
  IF i > Len(profiles[n]) THEN c
  ELSE IF ~profiles[n][i].Enabled THEN ProfileLoop(n, c, i + 1, body)
  ELSE ProfileNext(n, RouteHandle(n, c, "profiles", chNone, body), i, body)

\* lines 249-254: forwarding after the profile keys
ProfileForward(n, c, body, dt) ==
  IF c.err # NoErr THEN c
  ELSE IF ShouldForward(Consumed(c, "profiles"), router[n].ForwardUnknownProfiles,
                        router[n].ForwardConsumedProfiles)
  THEN forward(n, c, "profiles", chNone, body, dt)
  ELSE c

\* lines 229-248: the profile keys
ProfileCheck(n, c, body, dt) ==
  IF c.err # NoErr THEN c
  ELSE ProfileForward(n, IF router[n].CheckProfiles THEN ProfileLoop(n, c, 1, body)
                         ELSE c,
                      body, dt)

\* lines 221-226: forwarding after the content key
ContentForward(n, c, body, dt) ==
  IF c.err # NoErr THEN c
  ELSE ProfileCheck(n, IF ShouldForward(Consumed(c, "content"),
                                        router[n].ForwardUnknownContent,
                                        router[n].ForwardConsumedContent)
                       THEN forward(n, c, "content", chNone, body, dt)
                       ELSE c,
                    body, dt)

\* lines 215-220: the content key
ContentCheck(n, s, body, dt) ==
  ContentForward(n, IF router[n].CheckContent
                    THEN RouteHandle(n, NewCtx(s), "content", chNone, body)
                    ELSE NewCtx(s),
                 body, dt)

\* Route, lines 213-255: the private message, content key then profile keys
RoutePrivate(n, s, message, idx, dt) == ContentCheck(n, s, SliceFrom(message, idx), dt)

ErrFrame == "Incorrect channel name length"

\* line 178: the big-endian uint16 in bytes 0..1
ChannelLen(message) == (message[1] * 256 + message[2]) % 65536

FrameTooShort_Tag32(message, channelLen) == Len(message) < channelLen + 2 + nonceSize

\* line 179: len(message) < int(channelLen)+2+64
FrameTooShort(message, channelLen) == Len(message) < channelLen + 2 + LuggageTagSize

RouteResult(s, ret, accepted, seen, c) ==
  [s |-> s, ret |-> ret, accepted |-> accepted, seen |-> seen,
   handles |-> c.handles, forwards |-> c.forwards, routes |-> c.routes]

\* what Route returns once the channel or private path has ended in c
RouteDone(c) == RouteResult(c.s, c.err, TRUE, FALSE, c)

\* lines 184-256: s is the state seenRecently left
RouteFresh(n, s, message, idx, channelLen, seen, dt) ==
  IF seen THEN RouteResult(s, NoErr, TRUE, TRUE, NewCtx(s))
  ELSE RouteDone(IF channelLen > 0
                 THEN RouteChannel(n, s, message, idx, channelLen, dt)
                 ELSE RoutePrivate(n, s, message, idx, dt))

\* line 184, with sr the result of seenRecently
RouteSeen(n, s, message, idx, channelLen, sr, dt) ==
  RouteFresh(n, [s EXCEPT !.rb = sr.rb, !.idx = sr.idx], message, idx, channelLen,
             sr.seen, dt)

\* lines 182-184: idx := 2 + channelLen in uint16, then the nonce
RouteNonce(n, s, message, idx, channelLen, dt) ==
  RouteSeen(n, s, message, idx, channelLen,
            seenRecently([rb |-> s.rb, idx |-> s.idx], Slice(message, idx, idx + nonceSize)),
            dt)

\* lines 179-182
RouteFramed(n, s, message, channelLen, dt) ==
  IF FrameTooShort(message, channelLen)
  THEN RouteResult(s, ErrFrame, FALSE, FALSE, NewCtx(s))
  ELSE RouteNonce(n, s, message, (2 + channelLen) % 65536, channelLen, dt)

\* DefaultRouter.Route(node, message)
Route(n, s, message, dt) ==
  IF Len(message) < 2
  THEN RouteResult(s, "panic: index out of range", FALSE, FALSE, NewCtx(s))
  ELSE RouteFramed(n, s, message, ChannelLen(message), dt)

-----------------------------------------------------------------------------
(* nodes/qldb/public.go: Pickup and Dropoff *)

\* the characters Pickup allows in a channel name: a-z, A-Z, 0-9
AlnumCodes == (97..122) \cup (65..90) \cup (48..57)

ValidChannelNames(channelNames) ==
  \A i \in DOMAIN channelNames :
    \A k \in DOMAIN channelNames[i] : channelNames[i][k] \in AlnumCodes

Reverse(seq) == [i \in 1..Len(seq) |-> seq[Len(seq) + 1 - i]]

\* ORDER BY timestamp ASC; rows of equal timestamp come in insertion order,
\* or in the opposite order when rev
RECURSIVE OrderByTimestamp(_, _)
OrderByTimestamp(rows, rev) ==
  IF rows = <<>> THEN <<>>
  ELSE LET t     == CHOOSE x \in {rows[i].timestamp : i \in DOMAIN rows} :
                      \A i \in DOMAIN rows : x <= rows[i].timestamp
           first == SelectSeq(rows, LAMBDA r : r.timestamp = t)
           rest  == SelectSeq(rows, LAMBDA r : r.timestamp # t)
       IN  (IF rev THEN Reverse(first) ELSE first) \o OrderByTimestamp(rest, rev)

Limit_None(rows) == rows

\* LIMIT 250
Limit(rows) == SubSeq(rows, 1, Min(Len(rows), PickupLimit))

PickupWhere_Inclusive(r, lastTime, channelNames) ==
  /\ lastTime # 0 => lastTime <= r.timestamp
  /\ Len(channelNames) > 0 => \E i \in DOMAIN channelNames : channelNames[i] = r.channel

\* the WHERE clause built in lines 88-103
PickupWhere(r, lastTime, channelNames) ==
  /\ lastTime # 0 => lastTime < r.timestamp
  /\ Len(channelNames) > 0 => \E i \in DOMAIN channelNames : channelNames[i] = r.channel

\* the query of lines 87-109
PickupQuery(rows, lastTime, channelNames, rev) ==
  Limit(OrderByTimestamp(
          SelectSeq(rows, LAMBDA r : PickupWhere(r, lastTime, channelNames)), rev))

ScanStep_Inverted(lastTimeReturned, ts) ==
  IF ts < lastTimeReturned THEN ts ELSE lastTimeReturned

\* one step of the scan loop, line 117: if ts > lastTimeReturned
ScanStep(lastTimeReturned, ts) == IF ts > lastTimeReturned THEN ts ELSE lastTimeReturned

\* lines 114-124: lastTimeReturned after scanning rows lo..hi in order
RECURSIVE ScanRows(_, _, _, _)
ScanRows(rows, lo, hi, lastTimeReturned) ==
  IF lo > hi THEN lastTimeReturned
  ELSE IF lo = hi THEN ScanStep(lastTimeReturned, rows[lo].timestamp)
  ELSE LET mid == (lo + hi) \div 2
       IN  Only({ScanRows(rows, mid + 1, hi, left) :
                   left \in {ScanRows(rows, lo, mid, lastTimeReturned)}})

\* gob: the number of byte strings, then each with its length before it
RECURSIVE GobItems(_, _, _)
GobItems(msgs, lo, hi) ==
  IF lo > hi THEN <<>>
  ELSE IF lo = hi THEN LenPrefix(msgs[lo]) \o msgs[lo]
  ELSE LET mid == (lo + hi) \div 2
       IN  GobItems(msgs, lo, mid) \o GobItems(msgs, mid + 1, hi)

GobEncode(msgs) == LenPrefix(msgs) \o GobItems(msgs, 1, Len(msgs))

\* reads count length-prefixed byte strings from position pos on
RECURSIVE GobParse(_, _, _)
GobParse(data, pos, count) ==
  IF count = 0 THEN [ok |-> TRUE, msgs |-> <<>>, pos |-> pos]
  ELSE IF count = 1
  THEN IF pos + 1 > Len(data) THEN [ok |-> FALSE, msgs |-> <<>>, pos |-> pos]
       ELSE LET k == data[pos] * 256 + data[pos + 1]
            IN  IF pos + 1 + k > Len(data)
                THEN [ok |-> FALSE, msgs |-> <<>>, pos |-> pos]
                ELSE [ok |-> TRUE, msgs |-> <<SubSeq(data, pos + 2, pos + 1 + k)>>,
                      pos |-> pos + 2 + k]
  ELSE Only({Only({IF a.ok THEN [ok |-> b.ok, msgs |-> a.msgs \o b.msgs, pos |-> b.pos]
                            ELSE a :
                      b \in {IF a.ok THEN GobParse(data, a.pos, count - count \div 2)
                                     ELSE a}}) :
              a \in {GobParse(data, pos, count \div 2)}})

GobDecode(data) ==
  IF Len(data) < 2 THEN [ok |-> FALSE, msgs |-> <<>>]
  ELSE LET g == GobParse(data, 3, data[1] * 256 + data[2])
       IN  [ok |-> g.ok /\ g.pos = Len(data) + 1, msgs |-> g.msgs]

\* lines 111-147, with r the rows the query yielded in order
PickupBundle(r, rpub, lastTime, nonceId) ==
  [err |-> NoErr,
   Time |-> ScanRows(r, 1, Len(r), lastTime),
   Data |-> IF Len(r) > 0
            THEN EncryptMessage(GobEncode([i \in 1..Len(r) |-> r[i].msg]), rpub, nonceId)
            ELSE <<>>,
   rows |-> r]

\* Node.Pickup(rpub, lastTime, channelNames...): nonceId is the nonce the
\* routing key draws for the envelope; rows are the rows the query yielded
Pickup(rows, routingKey, rpub, lastTime, channelNames, rev, nonceId) ==
  IF ~ValidChannelNames(channelNames)
  THEN [err |-> "Invalid character in channel name", Time |-> 0, Data |-> <<>>,
        rows |-> <<>>]
  ELSE PickupBundle(PickupQuery(rows, lastTime, channelNames, rev), rpub, lastTime,
                    nonceId)

\* what the Dropoff loop did with one message of the bundle
DropRecord(msg, routed, r) ==
  [msg |-> msg, routed |-> routed,
   ret |-> IF routed THEN r.ret ELSE NoErr,
   seen |-> routed /\ r.seen,
   consumed |-> routed /\ \E i \in DOMAIN r.handles :
                              r.handles[i].tagOK /\ r.handles[i].err = NoErr,
   forwards |-> IF routed
                THEN [i \in DOMAIN r.forwards |->
                        [channel |-> r.forwards[i].channel, err |-> r.forwards[i].err]]
                ELSE <<>>]

\* Dropoff, lines 42-51: messages shorter than a cipher block are skipped,
\* the others routed; a routing error is logged and the loop goes on
\* the loop's state l = [s, trace] after Route has returned r for msg
DropoffRouted(l, msg, r) == [s |-> r.s, trace |-> Append(l.trace, DropRecord(msg, TRUE, r))]

DropoffStep(n, l, msg, dt) ==
  IF Len(msg) < MinMsgLen
  THEN [s |-> l.s, trace |-> Append(l.trace, DropRecord(msg, FALSE, [ret |-> NoErr]))]
  ELSE DropoffRouted(l, msg, Route(n, l.s, msg, dt))

\* the loop over msgs[lo..hi], in order
RECURSIVE DropoffLoop(_, _, _, _, _, _)
DropoffLoop(n, l, msgs, lo, hi, dt) ==
  IF lo > hi THEN l
  ELSE IF lo = hi THEN DropoffStep(n, l, msgs[lo], dt)
  ELSE LET mid == (lo + hi) \div 2
       IN  Only({DropoffLoop(n, left, msgs, mid + 1, hi, dt) :
                   left \in {DropoffLoop(n, l, msgs, lo, mid, dt)}})

DropoffFail(s, err) == [s |-> s, err |-> err, trace |-> <<>>]

DropoffDecoded_Surfaces(n, s, g, dt) ==
  IF ~g.ok THEN DropoffFail(s, "gob: decode failed")
  ELSE Only({[s |-> l.s,
              err |-> IF l.trace = <<>> THEN NoErr ELSE l.trace[Len(l.trace)].ret,
              trace |-> l.trace] :
               l \in {DropoffLoop(n, [s |-> s, trace |-> <<>>], g.msgs, 1,
                                  Len(g.msgs), dt)}})

\* lines 36-53: g is what the gob decoder made of the clear text
DropoffDecoded(n, s, g, dt) ==
  IF ~g.ok THEN DropoffFail(s, "gob: decode failed")
  ELSE Only({[s |-> l.s, err |-> NoErr, trace |-> l.trace] :
               l \in {DropoffLoop(n, [s |-> s, trace |-> <<>>], g.msgs, 1,
                                  Len(g.msgs), dt)}})

\* lines 27-35: d is what DecryptMessage returned
DropoffDecrypted(n, s, d, dt) ==
  IF d.err # NoErr THEN DropoffFail(s, d.err)
  ELSE IF ~d.tagOK THEN DropoffFail(s, "Luggage Tag Check Failed in Dropoff")
  ELSE DropoffDecoded(n, s, GobDecode(d.clear), dt)

\* Node.Dropoff(bundle)
Dropoff(n, s, b, dt) ==
  IF Len(b.Data) < 1 THEN DropoffFail(s, "Dropoff called with no data")
  ELSE DropoffDecrypted(n, s, DecryptMessage(RoutingKey(n), b.Data), dt)

-----------------------------------------------------------------------------
(* Send, SendChannel, SendBulk, SendChannelBulk *)

\* the store's insert of one outbox row
dbOutboxEnqueue(s, channelName, msg, ts, checkExists) ==
  IF s.outboxErr THEN [s |-> s, err |-> "store error"]
  ELSE IF checkExists /\ \E i \in DOMAIN s.outbox :
                           s.outbox[i].channel = channelName /\ s.outbox[i].msg = msg
  THEN [s |-> s, err |-> NoErr]
  ELSE [s |-> [s EXCEPT !.outbox = Append(@, [channel |-> channelName, msg |-> msg,
                                               timestamp |-> ts])],
        err |-> NoErr]

\* the store's insert of a batch of rows under one timestamp
outboxBulkInsert(s, channelName, ts, data) ==
  [s EXCEPT !.outbox = @ \o [i \in 1..Len(data) |->
                               [channel |-> channelName, msg |-> data[i],
                                timestamp |-> ts]]]

\* policy/poll.go lines 162-170, the db node's Forward: frame, then enqueue
\* without the existence check
dbForward(s, channelName, message) ==
  dbOutboxEnqueue(s, channelName, Frame(channelName, message), s.now, FALSE)

\* Node.send: the content key draws nonce nonceId
send(s, channelName, destkey, msg, nonceId) ==
  LET data == Frame(channelName, EncryptMessage(msg, destkey, nonceId))
      ts   == s.now
  IN  dbOutboxEnqueue(s, channelName, data, ts, FALSE)

\* Node.sendBulk: the content key draws the nonces nonceId, nonceId + 1, ...
sendBulk(s, channelName, destkey, msg, nonceId) ==
  LET data == [i \in 1..Len(msg) |->
                 Frame(channelName, EncryptMessage(msg[i], destkey, nonceId + i - 1))]
      ts   == s.now
  IN  [s |-> outboxBulkInsert(s, channelName, ts, data), err |-> NoErr]

\* Send / SendBulk with the optional pubkey given (lines 404-405, 463-464)
Send(s, data, pubkey, nonceId) == send(s, chNone, pubkey, data, nonceId)
SendBulk(s, data, pubkey, nonceId) == sendBulk(s, chNone, pubkey, data, nonceId)

\* SendChannel / SendChannelBulk: the key comes from the channelKeys cache
SendChannel(n, s, channelName, data, nonceId) ==
  IF channelName \notin DOMAIN channelKeys[n]
  THEN [s |-> s, err |-> "No public key for Channel"]
  ELSE send(s, channelName, channelKeys[n][channelName], data, nonceId)

SendChannelBulk(n, s, channelName, data, nonceId) ==
  IF channelName \notin DOMAIN channelKeys[n]
  THEN [s |-> s, err |-> "No public key for Channel"]
  ELSE sendBulk(s, channelName, channelKeys[n][channelName], data, nonceId)

-----------------------------------------------------------------------------
(* AddChannel, DeleteChannel and the channelKeys cache.  chans is the       *)
(* channels table of the store, keys the cache.                             *)

\* the store's insert of a channel, which replaces a row of the same name
dbAddChannel(chans, name, privkey) ==
  [x \in DOMAIN chans \cup {name} |-> IF x = name THEN privkey ELSE chans[x]]

\* the store's delete of a channel
dbDeleteChannel(chans, name) == [x \in DOMAIN chans \ {name} |-> chans[x]]

\* Node.refreshChannels: every channel of the store is written into the cache
refreshChannels(keys, chans) ==
  [x \in DOMAIN keys \cup DOMAIN chans |-> IF x \in DOMAIN chans THEN chans[x] ELSE keys[x]]

\* Node.AddChannel; storeErr says that dbAddChannel fails
AddChannel(chans, keys, name, privkey, storeErr) ==
  IF storeErr THEN [channels |-> chans, channelKeys |-> keys, err |-> "store error"]
  ELSE [channels |-> dbAddChannel(chans, name, privkey),
        channelKeys |-> refreshChannels(keys, dbAddChannel(chans, name, privkey)),
        err |-> NoErr]

\* Node.DeleteChannel
DeleteChannel(chans, keys, name) ==
  [channels |-> dbDeleteChannel(chans, name), channelKeys |-> keys, err |-> NoErr]

-----------------------------------------------------------------------------
(* api/chunking.go: ChunkSize and SendChunked *)

\* The lengths, chunk sizes and byte limits of this section are below 2^31
\* and the chunk sizes are at least 9: on them the uint32 arithmetic of the
\* code is exact, and it is written here without reduction.

\* binary.Write(b, binary.LittleEndian, uint32(x))
LE32(x) ==
  <<x % 256, (x \div 256) % 256, (x \div 65536) % 256, (x \div 16777216) % 256>>

ChunkSizeStep_Floor(chunksize, limit) ==
  IF limit > chunksize THEN limit ELSE chunksize

\* lines 31-33
ChunkSizeStep(chunksize, limit) ==
  IF limit < chunksize THEN limit ELSE chunksize

\* lines 29-34: the loop over the policies' transports, limits[i] their ByteLimit()
RECURSIVE ChunkSizeLoop(_, _, _)
ChunkSizeLoop(limits, i, chunksize) ==
  IF i > Len(limits) THEN chunksize
  ELSE ChunkSizeLoop(limits, i + 1, ChunkSizeStep(chunksize, limits[i]))

\* ChunkSize(node)
ChunkSize(limits) == ChunkSizeLoop(limits, 1, DefaultChunkSize)

ChunkMsg_LongHeader(msg, streamID, num, data, header) ==
  [Name |-> msg.Name, IsChan |-> msg.IsChan, Chunked |-> TRUE, StreamHeader |-> header,
   Content |-> streamID \o LE32(num) \o LE32(0) \o data]

\* the Msg of lines 60, 68 and 77: stream id, a little-endian uint32, the data
ChunkMsg(msg, streamID, num, data, header) ==
  [Name |-> msg.Name, IsChan |-> msg.IsChan, Chunked |-> TRUE, StreamHeader |-> header,
   Content |-> streamID \o LE32(num) \o data]

TotalChunks_Whole(wholeLoops, remainder) == wholeLoops

\* lines 47-50
TotalChunks(wholeLoops, remainder) ==
  IF remainder # 0 THEN wholeLoops + 1 ELSE wholeLoops

\* line 66: buf[i*c : i*c + c]
WholeChunk(buf, i, c) == Slice(buf, i * c, i * c + c)

\* line 75: buf[wholeLoops*c:]
LastChunk(buf, wholeLoops, c) == SliceFrom(buf, wholeLoops * c)

\* the messages lines 53-81 hand to node.SendMsg, in order, when no call fails
ChunkRecords(msg, streamID, buf, c, wholeLoops, remainder) ==
  IF wholeLoops + remainder = 0 THEN <<>>
  ELSE <<ChunkMsg(msg, streamID, TotalChunks(wholeLoops, remainder), <<>>, TRUE)>>
       \o [i \in 1..wholeLoops |->
             ChunkMsg(msg, streamID, i - 1, WholeChunk(buf, i - 1, c), FALSE)]
       \o (IF remainder > 0
           THEN <<ChunkMsg(msg, streamID, wholeLoops, LastChunk(buf, wholeLoops, c),
                           FALSE)>>
           ELSE <<>>)

\* node.SendMsg fails at its failAt-th call (never when failAt is 0): the
\* messages before it are sent, and SendChunked returns the error
SendUntil(records, failAt) ==
  IF failAt = 0 \/ failAt > Len(records)
  THEN [sent |-> records, err |-> NoErr]
  ELSE [sent |-> SubSeq(records, 1, failAt - 1), err |-> "SendMsg failed"]

\* lines 41-46, with buflen and c computed
SendChunkedSized(msg, streamID, buf, buflen, c, failAt) ==
  SendUntil(ChunkRecords(msg, streamID, buf, c, buflen \div c, buflen % c), failAt)

\* SendChunked(node, chunkSize, msg), for a chunk size of at least 9
SendChunked(msg, chunkSize, streamID, failAt) ==
  SendChunkedSized(msg, streamID, msg.Content, Len(msg.Content),
                   chunkSize - ChunkHeaderSize, failAt)

-----------------------------------------------------------------------------
(* State after construction *)

\* NewDefaultRouter
NewDefaultRouter ==
  [CheckContent |-> TRUE, CheckChannels |-> TRUE, CheckProfiles |-> FALSE,
   ForwardUnknownContent |-> TRUE, ForwardUnknownChannels |-> TRUE,
   ForwardUnknownProfiles |-> FALSE,
   ForwardConsumedContent |-> FALSE, ForwardConsumedChannels |-> TRUE,
   ForwardConsumedProfiles |-> FALSE]

NoCall == [op |-> "none"]

\* the goroutines that route messages on N1 at the same time, and one of them
\* outside seenRecently: made is the number of calls it has made, rets what
\* they returned
Goroutines == {"g1", "g2"}
NoSeenCall == [pc |-> "idle", nonce |-> <<>>, seen |-> FALSE, idx |-> 0, made |-> 0,
               rets |-> <<>>]
NoBundle == [Time |-> 0, Data |-> <<>>]
EmptyMap == [x \in {} |-> 0]

\* what is the same at the start of every run, the recent buffers apart
InitState ==
  /\ outbox = [n \in Nodes |-> <<>>]
  /\ Out = [n \in Nodes |-> <<>>]
  /\ now = 1
  /\ rnd = 0
  /\ isRunning = FALSE
  /\ lastPollLocal = 0
  /\ lastPollRemote = 0
  /\ got = {}
  /\ backlog = {}
  /\ bundle = NoBundle
  /\ last = NoCall
  /\ prev = NoCall
  /\ workers = <<>>
  /\ stopCall = "none"
  /\ nmsgs = 0
  /\ tracked = <<>>
  /\ gap = 0
  /\ calls = [g \in Goroutines |-> NoSeenCall]
  /\ nodeIsRunning = FALSE
  /\ inputLoops = <<>>
  /\ In = <<>>
  /\ nodeStop = "none"

\* what is the same at the start of every run on fresh routers
InitRest ==
  /\ recentPageIdx = [n \in Nodes |-> 0]
  /\ recentBuffer = [n \in Nodes |-> newRecentBuffer]
  /\ InitState

\* every node fresh: default router, empty store, nobody receiving on Out
InitFresh ==
  /\ InitRest
  /\ SyncBacklog = FALSE
  /\ router = [n \in Nodes |-> NewDefaultRouter]
  /\ Patches = [n \in Nodes |-> <<>>]
  /\ channels = [n \in Nodes |-> EmptyMap]
  /\ channelKeys = [n \in Nodes |-> EmptyMap]
  /\ profiles = [n \in Nodes |-> <<>>]
  /\ receivers = [n \in Nodes |-> 0]

\* the variables a call on node n leaves in state s
Commit(n, s) ==
  /\ recentBuffer' = [recentBuffer EXCEPT ![n] = s.rb]
  /\ recentPageIdx' = [recentPageIdx EXCEPT ![n] = s.idx]
  /\ outbox' = [outbox EXCEPT ![n] = s.outbox]
  /\ Out' = [Out EXCEPT ![n] = s.Out]
  /\ receivers' = [receivers EXCEPT ![n] = s.recv]
  /\ now' = s.now

configVars == <<router, Patches, channels, channelKeys, profiles>>
pollVars == <<isRunning, lastPollLocal, lastPollRemote, SyncBacklog, got, backlog,
              workers, stopCall>>
loopVars == <<nmsgs, tracked, gap>>
goVars == <<calls, nodeIsRunning, inputLoops, In, nodeStop>>

-----------------------------------------------------------------------------
(* Route called on node n with a message, as Dropoff or a test calls it.    *)
(* g is the number of calls with other nonces since this nonce's last call, *)
(* -1 when the nonce is not followed.                                       *)

\* the last call was Route on node n with this message, and reached seenRecently
Repeats(n, message) ==
  last.op = "Route" /\ last.node = n /\ last.msg = message /\ last.accepted

\* how many Route calls with this message in a row precede this one, counted
\* from one whose seenRecently returned false; 0 when there is no such run
Streak(n, message) ==
  IF Repeats(n, message) /\ (~last.seen \/ last.streak > 0) THEN last.streak + 1 ELSE 0

\* what the call before returned, when it was a Route of the same message
\* that reached seenRecently
Retried(n, message) == IF Repeats(n, message) THEN last.ret ELSE "no repeat"

\* streak is Streak, retry is Retried
CallRoute(n, message, dt, outboxErr, g) ==
  \E r \in {Route(n, NodeState(n, outboxErr), message, dt)} :
    /\ Commit(n, r.s)
    /\ last' = [op |-> "Route", node |-> n, msg |-> message, ret |-> r.ret,
                accepted |-> r.accepted, seen |-> r.seen, handles |-> r.handles,
                forwards |-> r.forwards, routes |-> r.routes, gap |-> g,
                streak |-> Streak(n, message),
                retry |-> Retried(n, message),
                before |-> [outbox |-> outbox[n], Out |-> Out[n],
                            recv |-> receivers[n], rb |-> recentBuffer[n],
                            idx |-> recentPageIdx[n]]]

(* Loop detection: remote peers send the messages LoopMsg(1), LoopMsg(2),   *)
(* ... to N1, and may send the last one or the followed one again.          *)

LoopMsg(i) ==
  Frame(IF i % 2 = 0 THEN chAlpha ELSE chNone,
        EncryptMessage(<<i % 256>>,
                       IF i % 3 = 0 THEN ContentKey("N1") ELSE KeyOther,
                       1000 + i))

RouteNew ==
  /\ nmsgs < MaxLoopNonces
  /\ \E follow \in BOOLEAN :
       /\ follow => tracked = <<>>
       /\ CallRoute("N1", LoopMsg(nmsgs + 1), 0, FALSE, -1)
       /\ nmsgs' = nmsgs + 1
       /\ tracked' = IF follow THEN LoopMsg(nmsgs + 1) ELSE tracked
       /\ gap' = IF follow \/ tracked = <<>> THEN 0 ELSE gap + 1
  /\ prev' = last
  /\ UNCHANGED <<configVars, goVars, pollVars, rnd, bundle>>

\* the message just routed arrives again (while no nonce is being followed)
RouteAgain ==
  /\ last.op = "Route"
  /\ tracked = <<>>
  /\ last.streak < MaxRepeats
  /\ CallRoute("N1", last.msg, 0, FALSE, -1)
  /\ prev' = last
  /\ UNCHANGED <<configVars, goVars, pollVars, rnd, bundle, loopVars>>

\* the followed message arrives again, after gap calls with other nonces
RouteTracked ==
  /\ tracked # <<>>
  /\ CallRoute("N1", tracked, 0, FALSE, gap)
  /\ tracked' = <<>>
  /\ gap' = 0
  /\ prev' = last
  /\ UNCHANGED <<configVars, goVars, pollVars, rnd, bundle, nmsgs>>

NextLoop == RouteNew \/ RouteAgain \/ RouteTracked

\* the nonces routed before the run starts
OldNonce(i) == NonceBytes(5000 + i)

\* N1 after 7 * 32 + 31 distinct nonces: generation 7 is in use and holds 31
InitWarm ==
  /\ InitState
  /\ recentPageIdx = [n \in Nodes |-> IF n = "N1" THEN recentBufferSize - 1 ELSE 0]
  /\ recentBuffer =
       [n \in Nodes |->
          IF n = "N1"
          THEN [newRecentBuffer EXCEPT
                  ![recentBufferSize - 1] = {OldNonce(i) : i \in 1..(entriesPerTable - 1)}]
          ELSE newRecentBuffer]
  /\ SyncBacklog = FALSE
  /\ router = [n \in Nodes |-> NewDefaultRouter]
  /\ Patches = [n \in Nodes |-> <<>>]
  /\ channels = [n \in Nodes |-> EmptyMap]
  /\ channelKeys = [n \in Nodes |-> EmptyMap]
  /\ profiles = [n \in Nodes |-> <<>>]
  /\ receivers = [n \in Nodes |-> 0]

SpecLoop == (InitFresh \/ InitWarm) /\ [][NextLoop]_vars

-----------------------------------------------------------------------------
(* Two goroutines route on N1 at the same time.  seenRecently takes only the *)
(* read lock of the buffer, which goroutines share, so its statements        *)
(* interleave; each action below is one statement of one goroutine, and the  *)
(* goroutine's locals seen and idx are in calls[g].                          *)

MaxRaceCalls == 2        \* seenRecently calls of one goroutine

RaceNonces == {NonceBytes(6001), NonceBytes(6002)}

\* the generation in use and the nonces it holds when the goroutines start:
\* a fresh router, or one that has routed distinct nonces one after another
RaceGenerations == {0, recentBufferSize - 2}
RaceHeld == {entriesPerTable - 1, entriesPerTable}

InitRace ==
  /\ InitState
  /\ \E idx \in RaceGenerations, held \in RaceHeld \cup {0} :
       /\ held = 0 => idx = 0
       /\ recentPageIdx = [n \in Nodes |-> IF n = "N1" THEN idx ELSE 0]
       /\ recentBuffer =
            [n \in Nodes |->
               IF n = "N1"
               THEN [newRecentBuffer EXCEPT ![idx] = {OldNonce(i) : i \in 1..held}]
               ELSE newRecentBuffer]
  /\ SyncBacklog = FALSE
  /\ router = [n \in Nodes |-> NewDefaultRouter]
  /\ Patches = [n \in Nodes |-> <<>>]
  /\ channels = [n \in Nodes |-> EmptyMap]
  /\ channelKeys = [n \in Nodes |-> EmptyMap]
  /\ profiles = [n \in Nodes |-> <<>>]
  /\ receivers = [n \in Nodes |-> 0]

\* what a statement of goroutine g leaves: its call c, N1's buffer and index
RaceStep(g, c, rb, idx) ==
  /\ calls' = [calls EXCEPT ![g] = c]
  /\ recentBuffer' = [recentBuffer EXCEPT !["N1"] = rb]
  /\ recentPageIdx' = [recentPageIdx EXCEPT !["N1"] = idx]
  /\ UNCHANGED <<outbox, Out, receivers, now, configVars, pollVars, rnd, bundle, last,
                 prev, loopVars, nodeIsRunning, inputLoops, In, nodeStop>>

\* Route reaches seenRecently with the nonce of its message
EnterSeenRecently(g) ==
  /\ calls[g].pc = "idle"
  /\ calls[g].made < MaxRaceCalls
  /\ \E nonce \in RaceNonces :
       RaceStep(g, [calls[g] EXCEPT !.pc = "hasMsgBeenSeen", !.nonce = nonce],
                recentBuffer["N1"], recentPageIdx["N1"])

\* seen := r.hasMsgBeenSeen(nonce)
ReadSeen(g) ==
  /\ calls[g].pc = "hasMsgBeenSeen"
  /\ RaceStep(g, [calls[g] EXCEPT !.pc = "recentPageIdx",
                                  !.seen = hasMsgBeenSeen(recentBuffer["N1"],
                                                           calls[g].nonce)],
              recentBuffer["N1"], recentPageIdx["N1"])

\* idx := r.recentPageIdx
ReadIdx(g) ==
  /\ calls[g].pc = "recentPageIdx"
  /\ RaceStep(g, [calls[g] EXCEPT !.pc = "isFull", !.idx = recentPageIdx["N1"]],
              recentBuffer["N1"], recentPageIdx["N1"])

\* isFull := len(r.recentBuffer[idx]) >= entriesPerTable, which panics when idx
\* is not an index of the array
TestFull(g) ==
  /\ calls[g].pc = "isFull"
  /\ RaceStep(g,
              [calls[g] EXCEPT
                 !.pc = IF calls[g].idx \notin DOMAIN recentBuffer["N1"]
                        THEN "panic"
                        ELSE IF Cardinality(recentBuffer["N1"][calls[g].idx])
                                  >= entriesPerTable
                             THEN "reset"
                             ELSE "setMsgSeen"],
              recentBuffer["N1"], recentPageIdx["N1"])

\* r.recentBuffer[idx] = make(recentPage, entriesPerTable)
ResetPage(g) ==
  /\ calls[g].pc = "reset"
  /\ RaceStep(g, [calls[g] EXCEPT !.pc = "advance"],
              [recentBuffer["N1"] EXCEPT ![calls[g].idx] = {}], recentPageIdx["N1"])

\* if idx < recentBufferSize-1 { r.recentPageIdx++; idx++ }
\* else { r.recentPageIdx = 0; idx = 0 }
AdvancePage(g) ==
  /\ calls[g].pc = "advance"
  /\ IF calls[g].idx < recentBufferSize - 1
     THEN RaceStep(g, [calls[g] EXCEPT !.pc = "setMsgSeen", !.idx = @ + 1],
                   recentBuffer["N1"], recentPageIdx["N1"] + 1)
     ELSE RaceStep(g, [calls[g] EXCEPT !.pc = "setMsgSeen", !.idx = 0],
                   recentBuffer["N1"], 0)

\* if !seen { r.setMsgSeen(idx, nonce) }; return seen
InsertReturn(g) ==
  /\ calls[g].pc = "setMsgSeen"
  /\ RaceStep(g,
              [calls[g] EXCEPT
                 !.pc = "idle",
                 !.made = @ + 1,
                 !.rets = Append(@, [nonce |-> calls[g].nonce, seen |-> calls[g].seen])],
              IF calls[g].seen
              THEN recentBuffer["N1"]
              ELSE setMsgSeen(recentBuffer["N1"], calls[g].idx, calls[g].nonce),
              recentPageIdx["N1"])

GoEnter == \E g \in Goroutines : EnterSeenRecently(g)
GoReadSeen == \E g \in Goroutines : ReadSeen(g)
GoReadIdx == \E g \in Goroutines : ReadIdx(g)
GoTestFull == \E g \in Goroutines : TestFull(g)
GoResetPage == \E g \in Goroutines : ResetPage(g)
GoAdvancePage == \E g \in Goroutines : AdvancePage(g)
GoInsertReturn == \E g \in Goroutines : InsertReturn(g)

NextRace ==
  \/ GoEnter
  \/ GoReadSeen
  \/ GoReadIdx
  \/ GoTestFull
  \/ GoResetPage
  \/ GoAdvancePage
  \/ GoInsertReturn

SpecRace == InitRace /\ [][NextRace]_vars

-----------------------------------------------------------------------------
(* The policy matrix: N1 is configured, then routes up to MaxRoutes messages *)

ChannelConfigs ==
  {[NewDefaultRouter EXCEPT !.CheckChannels = a, !.ForwardUnknownChannels = b,
                            !.ForwardConsumedChannels = c] : a, b, c \in BOOLEAN}

ContentConfigs ==
  {[NewDefaultRouter EXCEPT !.CheckContent = a, !.ForwardUnknownContent = b,
                            !.ForwardConsumedContent = c] : a, b, c \in BOOLEAN}

ProfileConfigs ==
  {[NewDefaultRouter EXCEPT !.CheckProfiles = a, !.ForwardUnknownProfiles = b,
                            !.ForwardConsumedProfiles = c] : a, b, c \in BOOLEAN}

ProfileLists ==
  { <<[Name |-> "p1", Enabled |-> TRUE]>>,
    <<[Name |-> "p1", Enabled |-> FALSE], [Name |-> "p2", Enabled |-> TRUE],
      [Name |-> "p3", Enabled |-> TRUE]>> }

AlphaPatch == [From |-> chAlpha, To |-> <<chBeta, chGamma>>]
AlphaKnown == [x \in {chAlpha} |-> KeyAlpha]

\* three patches, two of them from alpha
ManyPatches ==
  <<[From |-> chBeta, To |-> <<chGamma>>], AlphaPatch,
    [From |-> chAlpha, To |-> <<chAlpha>>]>>

RouteScenarios ==
  [router : ChannelConfigs, profiles : {<<>>}, Patches : {<<>>, <<AlphaPatch>>},
   channels : {EmptyMap, AlphaKnown}]
  \cup [router : {NewDefaultRouter}, profiles : {<<>>}, Patches : {ManyPatches},
         channels : {EmptyMap, AlphaKnown}]
  \cup [router : ContentConfigs, profiles : {<<>>}, Patches : {<<>>},
         channels : {EmptyMap}]
  \cup [router : ProfileConfigs, profiles : ProfileLists, Patches : {<<>>},
         channels : {EmptyMap}]

InitRoute ==
  /\ InitRest
  /\ SyncBacklog = FALSE
  /\ \E sc \in RouteScenarios, recv \in {0, 1, 2} :
       /\ router = [n \in Nodes |-> IF n = "N1" THEN sc.router ELSE NewDefaultRouter]
       /\ Patches = [n \in Nodes |-> IF n = "N1" THEN sc.Patches ELSE <<>>]
       /\ channels = [n \in Nodes |-> IF n = "N1" THEN sc.channels ELSE EmptyMap]
       /\ channelKeys = [n \in Nodes |-> IF n = "N1" THEN sc.channels ELSE EmptyMap]
       /\ profiles = [n \in Nodes |-> IF n = "N1" THEN sc.profiles ELSE <<>>]
       /\ receivers = [n \in Nodes |-> IF n = "N1" THEN recv ELSE 0]

Take(message, k) == SubSeq(message, 1, k)

UniMine == Frame(chNone, EncryptMessage(<<7>>, ContentKey("N1"), 1001))
UniCorrupt == Frame(chNone, CorruptBody(<<7>>, ContentKey("N1"), 1002))
UniOther == Frame(chNone, EncryptMessage(<<7>>, KeyOther, 1003))
AlphaMine == Frame(chAlpha, EncryptMessage(<<8>>, KeyAlpha, 1004))
AlphaCorrupt == Frame(chAlpha, CorruptBody(<<8>>, KeyAlpha, 1005))
AlphaOther == Frame(chAlpha, EncryptMessage(<<8>>, KeyOther, 1006))
BetaOther == Frame(chBeta, EncryptMessage(<<9>>, KeyOther, 1007))

\* what remote peers send: well-formed frames, and frames cut short at the
\* lengths 2+chanLen+64, one less, 2+chanLen+32 and one less
RouteMsgs ==
  { UniMine, UniCorrupt, UniOther, AlphaMine, AlphaCorrupt,
    AlphaOther, BetaOther,
    Take(UniOther, 2 + LuggageTagSize), Take(UniOther, 2 + LuggageTagSize - 1),
    Take(AlphaMine, 2 + 1 + nonceSize), Take(AlphaMine, 2 + 1 + nonceSize - 1) }

RouteAny ==
  /\ nmsgs < MaxRoutes
  /\ \E m \in RouteMsgs, outboxErr \in BOOLEAN :
       CallRoute("N1", m, 0, outboxErr, -1)
  /\ nmsgs' = nmsgs + 1
  /\ UNCHANGED <<configVars, goVars, pollVars, rnd, bundle, tracked, gap, prev>>

NextRoute == RouteAny

SpecRoute == InitRoute /\ [][NextRoute]_vars

-----------------------------------------------------------------------------
(* The outbox of N1 filled by its application, and picked up by a peer.     *)
(* N1 knows the channel alpha; N2 is fresh.                                 *)

SourceNodes ==
  /\ InitRest
  /\ router = [n \in Nodes |-> NewDefaultRouter]
  /\ Patches = [n \in Nodes |-> <<>>]
  /\ channels = [n \in Nodes |-> IF n = "N1" THEN AlphaKnown ELSE EmptyMap]
  /\ channelKeys = [n \in Nodes |-> IF n = "N1" THEN AlphaKnown ELSE EmptyMap]
  /\ profiles = [n \in Nodes |-> <<>>]

InitSource ==
  /\ SourceNodes
  /\ receivers = [n \in Nodes |-> 0]
  /\ SyncBacklog = FALSE

\* the batches handed to SendBulk and SendChannelBulk
BulkData(k) == [i \in 1..k |-> <<i % 256>>]
LargeBatch == PickupLimit + 1

\* room for one more call that adds k rows
CanSend(n, k) == nmsgs < MaxSends /\ Len(outbox[n]) + k <= PickupLimit + MaxSends

\* what a send call on node n leaves: r is its result, drawn the nonces it used
Sent(n, op, channelName, r, drawn) ==
  /\ Commit(n, r.s)
  /\ rnd' = rnd + drawn
  /\ last' = [op |-> op, node |-> n, channel |-> channelName, err |-> r.err]
  /\ nmsgs' = nmsgs + 1
  /\ UNCHANGED <<configVars, goVars, pollVars, bundle, prev, tracked, gap>>

DoSend(n, pubkey) ==
  /\ CanSend(n, 1)
  /\ Sent(n, "Send", chNone, Send(NodeState(n, FALSE), <<7>>, pubkey, rnd + 1), 1)

DoSendChannel(n, channelName) ==
  /\ CanSend(n, 1)
  /\ Sent(n, "SendChannel", channelName,
          SendChannel(n, NodeState(n, FALSE), channelName, <<8>>, rnd + 1),
          IF channelName \in DOMAIN channelKeys[n] THEN 1 ELSE 0)

DoSendBulk(n, pubkey, k) ==
  /\ CanSend(n, k)
  /\ Sent(n, "SendBulk", chNone,
          SendBulk(NodeState(n, FALSE), BulkData(k), pubkey, rnd + 1), k)

DoSendChannelBulk(n, channelName, k) ==
  /\ CanSend(n, k)
  /\ Sent(n, "SendChannelBulk", channelName,
          SendChannelBulk(n, NodeState(n, FALSE), channelName, BulkData(k), rnd + 1),
          IF channelName \in DOMAIN channelKeys[n] THEN k ELSE 0)

\* the timestamp of the newest row of n, 0 when it has none
LastStamp(n) == IF outbox[n] = <<>> THEN 0 ELSE outbox[n][Len(outbox[n])].timestamp

\* the clock moves on once the current instant has stamped a row of n
DoTick(n) ==
  /\ now <= LastStamp(n)
  /\ now' = now + 1
  /\ UNCHANGED <<recentPageIdx, recentBuffer, outbox, Out, receivers, configVars, goVars,
                 pollVars, rnd, bundle, last, prev, loopVars>>

\* the nonce the routing key draws for a bundle
EnvelopeNonces == {3001}

\* peer calls Pickup on node n
DoPickup(n, rpub, lastTime, channelNames, rev) ==
  \E nonceId \in EnvelopeNonces :
    \E b \in {Pickup(outbox[n], RoutingKey(n), rpub, lastTime, channelNames, rev,
                     nonceId)} :
      /\ bundle' = [Time |-> b.Time, Data |-> b.Data]
      /\ last' = [op |-> "Pickup", node |-> n, lastTime |-> lastTime,
                  channels |-> channelNames, err |-> b.err, rows |-> b.rows]

PickupChannels == {<<>>, <<chAlpha>>, <<chNone, chBeta>>, <<chAlpha, chBad>>}

CallSend == DoSend("N1", ContentKey("N2"))
CallSendChannel == DoSendChannel("N1", chAlpha)
CallSendBulk == DoSendBulk("N1", ContentKey("N2"), SmallBatch)
CallSendChannelBulk == DoSendChannelBulk("N1", chAlpha, LargeBatch)
Tick == DoTick("N1")

\* Pickup leaves the node as it was, so a second call in a row would only
\* repeat the first: the peer calls again once the node has been used
CallPickup ==
  /\ last.op # "Pickup"
  /\ \E lastTime \in (-1)..now, channelNames \in PickupChannels, rev \in BOOLEAN :
       DoPickup("N1", RoutingKey("N2"), lastTime, channelNames, rev)
  /\ UNCHANGED <<recentPageIdx, recentBuffer, outbox, Out, receivers, now, configVars, goVars,
                 pollVars, rnd, prev, loopVars>>

NextPickup ==
  \/ CallSend
  \/ CallSendChannel
  \/ CallSendBulk
  \/ CallSendChannelBulk
  \/ Tick
  \/ CallPickup

SpecPickup == InitSource /\ [][NextPickup]_vars

-----------------------------------------------------------------------------
(* The Poll policy of N2, polling N1.  SyncBacklog is set before RunPolicy. *)

InitPoll ==
  /\ SourceNodes
  /\ receivers = [n \in Nodes |-> 0]
  /\ SyncBacklog \in BOOLEAN

nodeVars == <<recentPageIdx, recentBuffer, outbox, Out, receivers, now>>

\* Poll.RunPolicy, lines 72-83 and 125; the goroutine of line 84 is a worker.
\* again: a RunPolicy has returned nil before; stopped: Stop has been called
PolicyRun(maxRuns) ==
  /\ isRunning \/ Len(workers) < maxRuns
  /\ IF isRunning
     THEN /\ last' = [op |-> "RunPolicy", err |-> "Policy is already running",
                      again |-> workers # <<>>, stopped |-> stopCall # "none"]
          /\ UNCHANGED <<lastPollLocal, lastPollRemote, workers, backlog>>
     ELSE /\ lastPollLocal' = IF SyncBacklog THEN 0 ELSE -1
          /\ lastPollRemote' = IF SyncBacklog THEN 0 ELSE -1
          /\ workers' = Append(workers, "started")
          /\ backlog' = {outbox["N1"][i].msg : i \in DOMAIN outbox["N1"]}
          /\ last' = [op |-> "RunPolicy", err |-> NoErr,
                      again |-> workers # <<>>, stopped |-> stopCall # "none"]
  /\ UNCHANGED <<nodeVars, configVars, isRunning, SyncBacklog, got, stopCall, rnd,
                 bundle, prev, loopVars>>

\* RunPolicy called on the policy itself
RunPolicy(maxRuns) == PolicyRun(maxRuns) /\ UNCHANGED goVars

CallRunPolicy == RunPolicy(MaxPolicyRuns)

\* the goroutine, lines 86-88: return if the flag is up
WorkerCheck ==
  \E i \in DOMAIN workers :
    /\ workers[i] = "started"
    /\ workers' = [workers EXCEPT ![i] = IF isRunning THEN "done" ELSE "checked"]
    /\ UNCHANGED <<nodeVars, configVars, goVars, isRunning, lastPollLocal, lastPollRemote,
                   SyncBacklog, got, backlog, stopCall, rnd, bundle, last, prev,
                   loopVars>>

\* line 89, then lines 91-95 up to the loop
WorkerSet ==
  \E i \in DOMAIN workers :
    /\ workers[i] = "checked"
    /\ workers' = [workers EXCEPT ![i] = "loop"]
    /\ isRunning' = TRUE
    /\ UNCHANGED <<nodeVars, configVars, goVars, lastPollLocal, lastPollRemote, SyncBacklog,
                   got, backlog, stopCall, rnd, bundle, last, prev, loopVars>>

\* the head of the loop, lines 97-100: leave when the flag is down (wg.Done)
WorkerLoop ==
  \E i \in DOMAIN workers :
    /\ workers[i] = "loop"
    /\ workers' = [workers EXCEPT ![i] = IF isRunning THEN "turn" ELSE "done"]
    /\ UNCHANGED <<nodeVars, configVars, goVars, isRunning, lastPollLocal, lastPollRemote,
                   SyncBacklog, got, backlog, stopCall, rnd, bundle, last, prev,
                   loopVars>>

\* the rest of a turn, lines 101-121: poll the peer: Pickup with the remote
\* cursor, which then takes the bundle's time
WorkerPoll ==
  \E i \in DOMAIN workers :
    /\ workers[i] = "turn"
    /\ \E rev \in BOOLEAN :
         DoPickup("N1", RoutingKey("N2"), lastPollRemote, <<>>, rev)
    /\ lastPollRemote' = bundle'.Time
    /\ got' = got \cup {last'.rows[k].msg : k \in DOMAIN last'.rows}
    /\ workers' = [workers EXCEPT ![i] = "loop"]
    /\ UNCHANGED <<nodeVars, configVars, goVars, isRunning, lastPollLocal, SyncBacklog,
                   backlog, stopCall, rnd, prev, loopVars>>

\* Poll.Stop, line 130, on a policy that has been run; it then waits at line 131
PolicyStop ==
  /\ stopCall = "none"
  /\ workers # <<>>
  /\ isRunning' = FALSE
  /\ stopCall' = "waiting"
  /\ UNCHANGED <<nodeVars, configVars, lastPollLocal, lastPollRemote, SyncBacklog,
                 got, backlog, workers, rnd, bundle, last, prev, loopVars>>

\* Stop called on the policy itself
CallStop == PolicyStop /\ UNCHANGED goVars

\* lines 131-133: wg.Wait() returns once every goroutine has run wg.Done;
\* Stop then stops the transport and returns
StopReturn ==
  /\ stopCall = "waiting"
  /\ \A i \in DOMAIN workers : workers[i] = "done"
  /\ stopCall' = "returned"
  /\ UNCHANGED <<nodeVars, configVars, goVars, isRunning, lastPollLocal, lastPollRemote,
                 SyncBacklog, got, backlog, workers, rnd, bundle, last, prev,
                 loopVars>>

NextPoll ==
  \/ CallSend
  \/ CallSendChannelBulk
  \/ Tick
  \/ CallRunPolicy
  \/ WorkerCheck
  \/ WorkerSet
  \/ WorkerLoop
  \/ WorkerPoll

SpecPoll == InitPoll /\ [][NextPoll]_vars

\* RunPolicy called again on the policy, and Stop
CallRunPolicyAgain == RunPolicy(MaxPolicyRuns + 1)

NextStop ==
  \/ CallRunPolicyAgain
  \/ WorkerCheck
  \/ WorkerSet
  \/ WorkerLoop
  \/ WorkerPoll
  \/ CallStop
  \/ StopReturn

SpecStop == InitPoll /\ [][NextStop]_vars

\* the scheduler runs every goroutine that can take a step: the workers, and
\* the caller of Stop once wg.Wait() can return
SpecStopFair ==
  /\ SpecStop
  /\ WF_vars(WorkerCheck)
  /\ WF_vars(WorkerSet)
  /\ WF_vars(WorkerLoop)
  /\ WF_vars(WorkerPoll)
  /\ WF_vars(StopReturn)

-----------------------------------------------------------------------------
(* The node N1 with the policy above as its only policy: Start, the input   *)
(* loop Start leaves running, the application writing to In(), and Stop.    *)
(* The node is started and stopped once; the messages the application       *)
(* writes are for destinations N1 can send to.                              *)

InMessages ==
  {[IsChan |-> FALSE, Name |-> chNone, PubKey |-> ContentKey("N2")],
   [IsChan |-> TRUE, Name |-> chAlpha, PubKey |-> <<>>]}

\* Node.Start, lines 527-572: nothing when the node runs already; else the
\* flag, RunPolicy on the policy, and the input loop unless RunPolicy failed
NodeStart ==
  /\ nodeStop = "none"
  /\ IF nodeIsRunning
     THEN UNCHANGED vars
     ELSE /\ nodeIsRunning' = TRUE
          /\ PolicyRun(MaxPolicyRuns)
          /\ inputLoops' = IF isRunning THEN inputLoops ELSE Append(inputLoops, "check")
          /\ UNCHANGED <<calls, In, nodeStop>>

\* the application writes a message to In()
PutIn ==
  /\ nmsgs < MaxSends
  /\ \E message \in InMessages : In' = Append(In, message)
  /\ nmsgs' = nmsgs + 1
  /\ UNCHANGED <<nodeVars, configVars, pollVars, rnd, bundle, last, prev, tracked, gap,
                 calls, nodeIsRunning, inputLoops, nodeStop>>

\* the head of the input loop, lines 548-552: leave when the flag is down
InputLoopCheck ==
  \E i \in DOMAIN inputLoops :
    /\ inputLoops[i] = "check"
    /\ inputLoops' = [inputLoops EXCEPT ![i] = IF nodeIsRunning THEN "receive" ELSE "done"]
    /\ UNCHANGED <<nodeVars, configVars, pollVars, rnd, bundle, last, prev, loopVars,
                   calls, nodeIsRunning, In, nodeStop>>

\* what the input loop calls for a message, lines 557-567
InputSend(message) ==
  IF message.IsChan
  THEN SendChannel("N1", NodeState("N1", FALSE), message.Name, <<8>>, rnd + 1)
  ELSE Send(NodeState("N1", FALSE), <<7>>, message.PubKey, rnd + 1)

\* lines 555-567: the loop takes a message from In() and sends it; log.Fatal
\* on an error.  stopped: Node.Stop had returned when the message was taken
InputLoopReceive ==
  \E i \in DOMAIN inputLoops :
    /\ inputLoops[i] = "receive"
    /\ In # <<>>
    /\ In' = Tail(In)
    /\ \E r \in {InputSend(Head(In))} :
         /\ Commit("N1", r.s)
         /\ last' = [op |-> "InputLoop", call |-> IF Head(In).IsChan THEN "SendChannel"
                                                                    ELSE "Send",
                     err |-> r.err, stopped |-> nodeStop = "returned"]
         /\ inputLoops' = [inputLoops EXCEPT ![i] = IF r.err = NoErr THEN "check"
                                                                    ELSE "fatal"]
    /\ rnd' = rnd + 1
    /\ UNCHANGED <<configVars, pollVars, bundle, prev, loopVars, calls, nodeIsRunning,
                   nodeStop>>

\* Node.Stop, lines 575-579: the flag, then Stop on the policy, which waits
NodeStopCall ==
  /\ nodeStop = "none"
  /\ nodeIsRunning
  /\ nodeIsRunning' = FALSE
  /\ PolicyStop
  /\ nodeStop' = "stopping"
  /\ UNCHANGED <<calls, inputLoops, In>>

\* the policy's Stop has returned, and Node.Stop returns
NodeStopReturn ==
  /\ nodeStop = "stopping"
  /\ stopCall = "returned"
  /\ nodeStop' = "returned"
  /\ UNCHANGED <<nodeVars, configVars, pollVars, rnd, bundle, last, prev, loopVars,
                 calls, nodeIsRunning, inputLoops, In>>

NextNode ==
  \/ NodeStart
  \/ PutIn
  \/ InputLoopCheck
  \/ InputLoopReceive
  \/ WorkerCheck
  \/ WorkerSet
  \/ WorkerLoop
  \/ WorkerPoll
  \/ NodeStopCall
  \/ StopReturn
  \/ NodeStopReturn

SpecNode == InitPoll /\ [][NextNode]_vars

-----------------------------------------------------------------------------
(* One round trip: N1's outbox is filled, a bundle is picked up for one     *)
(* channel from time 0, and dropped off on the fresh node N2.               *)

InitSync ==
  /\ SourceNodes
  /\ \E recv \in {0, 1} : receivers = [n \in Nodes |-> IF n = "N2" THEN recv ELSE 0]
  /\ SyncBacklog = FALSE

\* no bundle has been picked up yet
Filling == last.op \notin {"Pickup", "Dropoff"}

\* bodies N1 relays for other nodes: one that N2 cannot authenticate, one
\* whose nonce is that of the first message N1 itself sends, one too short
\* for a luggage tag and one shorter than a cipher block
RelayedBodies ==
  { CorruptBody(<<5>>, ContentKey("N2"), 2001), EncryptMessage(<<6>>, KeyOther, 1),
    [i \in 1..20 |-> 4], <<1, 2, 3>> }

DoForward(n, channelName, body) ==
  /\ CanSend(n, 1)
  /\ Sent(n, "Forward", channelName, Forward(NodeState(n, FALSE), channelName, body, 0), 0)

SyncSend == Filling /\ \E pubkey \in {ContentKey("N2"), KeyOther} : DoSend("N1", pubkey)
SyncSendChannel == Filling /\ DoSendChannel("N1", chAlpha)
SyncSendBulk == Filling /\ DoSendBulk("N1", ContentKey("N2"), LargeBatch)
SyncForward == Filling /\ \E body \in RelayedBodies : DoForward("N1", chNone, body)
SyncTick == Filling /\ DoTick("N1")

\* the peer picks up at an instant at which N1 has written, or from an empty N1
SyncPickup ==
  /\ Filling
  /\ outbox["N1"] = <<>> \/ LastStamp("N1") = now
  /\ \E c \in {chNone, chAlpha}, rev \in BOOLEAN :
       DoPickup("N1", RoutingKey("N2"), 0, <<c>>, rev)
  /\ UNCHANGED <<nodeVars, configVars, goVars, pollVars, rnd, prev, loopVars>>

\* the peer hands the bundle to node n
DoDropoff(n, dt) ==
  \E r \in {Dropoff(n, NodeState(n, FALSE), bundle, dt)} :
    /\ Commit(n, r.s)
    /\ prev' = last
    /\ last' = [op |-> "Dropoff", node |-> n, err |-> r.err, trace |-> r.trace]
    /\ UNCHANGED <<configVars, goVars, pollVars, rnd, bundle, loopVars>>

SyncDropoff == last.op = "Pickup" /\ DoDropoff("N2", 1)

NextSync ==
  \/ SyncSend
  \/ SyncSendChannel
  \/ SyncSendBulk
  \/ SyncForward
  \/ SyncTick
  \/ SyncPickup
  \/ SyncDropoff

SpecSync == InitSync /\ [][NextSync]_vars

-----------------------------------------------------------------------------
(* The outbox of N1 written by Forward, of the qldb node and of the db node, *)
(* and by the four send calls.                                              *)

\* a channel name one byte longer than a uint16 can count
LongName == [i \in 1..(MaxUint16 + 1) |-> 97]

ForwardNodes == {"qldb", "db"}

ForwardBodies == {EncryptMessage(<<6>>, KeyOther, 2002), <<1, 2, 3>>}

\* Forward(channelName, body) of a qldb node or of a db node n
ForwardOn(n, impl, channelName, body) ==
  IF impl = "qldb" THEN Forward(NodeState(n, FALSE), channelName, body, 0)
  ELSE dbForward(NodeState(n, FALSE), channelName, body)

\* Forward called on node n, by the router or the application; called is the
\* record of the call
CallForward(n, impl, channelName, body, used, called) ==
  /\ CanSend(n, 1)
  /\ \E r \in {ForwardOn(n, impl, channelName, body)} :
       /\ Commit(n, r.s)
       /\ last' = [called EXCEPT !.err = r.err]
  /\ prev' = last
  /\ nmsgs' = nmsgs + used
  /\ UNCHANGED <<configVars, goVars, pollVars, rnd, bundle, tracked, gap>>

OutForward ==
  \E impl \in ForwardNodes, channelName \in {chNone, chAlpha}, body \in ForwardBodies :
    CallForward("N1", impl, channelName, body, 1,
                [op |-> "Forward", impl |-> impl, node |-> "N1",
                 channel |-> channelName, body |-> body, err |-> NoErr,
                 before |-> outbox["N1"]])

\* the last call a behaviour makes: Forward on a channel with a long name
OutForwardLong ==
  \E impl \in ForwardNodes :
    CallForward("N1", impl, LongName, <<1, 2, 3>>, MaxSends - nmsgs,
                [op |-> "ForwardLong", impl |-> impl, node |-> "N1", err |-> NoErr])

OutSendChannelBulk == DoSendChannelBulk("N1", chAlpha, SmallBatch)

NextOutbox ==
  \/ OutForward
  \/ OutForwardLong
  \/ CallSend
  \/ CallSendChannel
  \/ CallSendBulk
  \/ OutSendChannelBulk
  \/ Tick

SpecOutbox == InitSource /\ [][NextOutbox]_vars

-----------------------------------------------------------------------------
(* The channels of N1: the application adds and deletes channels, sends on  *)
(* them, and messages for them are handled.                                 *)

ChannelNames == {chAlpha, chBeta}
ChannelPrivkeys == {KeyAlpha, KeyOther}

\* what AddChannel or DeleteChannel leaves on node n
ChannelSet(n, op, name, r) ==
  /\ channels' = [channels EXCEPT ![n] = r.channels]
  /\ channelKeys' = [channelKeys EXCEPT ![n] = r.channelKeys]
  /\ last' = [op |-> op, node |-> n, channel |-> name, err |-> r.err]
  /\ UNCHANGED <<nodeVars, router, Patches, profiles, goVars, pollVars, rnd, bundle,
                 prev, loopVars>>

CallAddChannel ==
  \E name \in ChannelNames, privkey \in ChannelPrivkeys, storeErr \in BOOLEAN :
    ChannelSet("N1", "AddChannel", name,
               AddChannel(channels["N1"], channelKeys["N1"], name, privkey, storeErr))

CallDeleteChannel ==
  \E name \in ChannelNames :
    ChannelSet("N1", "DeleteChannel", name,
               DeleteChannel(channels["N1"], channelKeys["N1"], name))

ChanSendChannel == \E name \in ChannelNames : DoSendChannel("N1", name)

\* Handle called on node n with a message sealed for the channel key alpha
CallHandle ==
  \E name \in ChannelNames :
    \E r \in {Handle("N1", NodeState("N1", FALSE), name,
                     EncryptMessage(<<8>>, KeyAlpha, 4001))} :
      /\ Commit("N1", r.s)
      /\ last' = [op |-> "Handle", node |-> "N1", channel |-> name, tagOK |-> r.tagOK,
                  err |-> r.err]
      /\ UNCHANGED <<configVars, goVars, pollVars, rnd, bundle, prev, loopVars>>

NextChannels == CallAddChannel \/ CallDeleteChannel \/ ChanSendChannel \/ CallHandle

SpecChannels == InitSource /\ [][NextChannels]_vars

-----------------------------------------------------------------------------
(* The chunking layer: one call of SendChunked or of ChunkSize on a node.   *)

Payload(k) == [i \in 1..k |-> (7 * i) % 256]

\* the chunk sizes tried: small ones, the default with its header, the largest
ChunkSizes == (ChunkHeaderSize + 1)..(ChunkHeaderSize + 5)
                \cup {DefaultChunkSize + ChunkHeaderSize, 2147483647}

\* the byte limits of the transports
ByteLimits == {0, 1000, DefaultChunkSize, 100000, 2147483647}

PolicyLimits ==
  UNION {[1..k -> ByteLimits] : k \in 0..MaxPolicies}

\* the stream id bc.GenerateRandomBytes(4) returns
StreamID(i) == LE32(i)

DoSendChunked(msg, chunkSize, failAt) ==
  /\ last.op = "none"
  /\ \E r \in {SendChunked(msg, chunkSize, StreamID(rnd + 1), failAt)} :
       last' = [op |-> "SendChunked", payload |-> msg.Content, chunkSize |-> chunkSize,
                sent |-> r.sent, err |-> r.err]
  /\ rnd' = rnd + 1
  /\ UNCHANGED <<nodeVars, configVars, goVars, pollVars, bundle, prev, loopVars>>

CallSendChunked ==
  \E k \in 0..MaxPayload, chunkSize \in ChunkSizes, failAt \in 0..2 :
    DoSendChunked([Name |-> chAlpha, IsChan |-> TRUE, Content |-> Payload(k)],
                  chunkSize, failAt)

\* the payload of 131072 bytes sent with the chunk size 65544
CallSendChunkedLarge ==
  DoSendChunked([Name |-> chNone, IsChan |-> FALSE,
                 Content |-> Payload(2 * DefaultChunkSize)],
                DefaultChunkSize + ChunkHeaderSize, 0)

CallChunkSize ==
  /\ last.op = "none"
  /\ \E limits \in PolicyLimits :
       last' = [op |-> "ChunkSize", limits |-> limits, ret |-> ChunkSize(limits)]
  /\ UNCHANGED <<nodeVars, configVars, goVars, pollVars, rnd, bundle, prev, loopVars>>

NextChunk == CallSendChunked \/ CallSendChunkedLarge \/ CallChunkSize

SpecChunk == InitFresh /\ [][NextChunk]_vars

-----------------------------------------------------------------------------
(* Claims about loop detection, checked under SpecLoop *)

\* C1: once Route(node, M) has returned for a message M that passed the length
\* check, an immediately following Route(node, M) returns nil and makes no
\* node.Handle and no node.Forward call.
C1_LoopDrop ==
  (last.op = "Route" /\ prev.op = "Route" /\ prev.accepted
     /\ last.node = prev.node /\ last.msg = prev.msg)
  => (last.ret = NoErr /\ last.handles = <<>> /\ last.forwards = <<>>)

\* C2: when at most C = 32 seenRecently calls with other nonces lie between two
\* seenRecently(N) calls, the second seenRecently(N) returns true.
C2_SeenWithinC ==
  (last.op = "Route" /\ last.gap >= 0 /\ last.gap <= entriesPerTable) => last.seen

\* the nonce of the message of the last Route
LastNonce ==
  Slice(last.msg, 2 + ChannelLen(last.msg), 2 + ChannelLen(last.msg) + nonceSize)

\* C22: a seenRecently(N) that returns false has inserted N, and the
\* seenRecently(N) calls that follow it in a row all return true
C22_RepeatsSeen ==
  /\ (last.op = "Route" /\ last.accepted /\ ~last.seen) =>
        hasMsgBeenSeen(recentBuffer[last.node], LastNonce)
  /\ (last.op = "Route" /\ last.streak > 0) => last.seen

\* the nonces generation i of node n holds
Generation(n, i) == recentBuffer[n][i]

\* C26: every generation other than the one at recentPageIdx is empty, and the
\* current one holds at most 32 nonces
C26_OneGeneration ==
  \A n \in Nodes :
    /\ recentPageIdx[n] \in 0..(recentBufferSize - 1)
    /\ Cardinality(Generation(n, recentPageIdx[n])) <= entriesPerTable
    /\ \A i \in 0..(recentBufferSize - 1) :
         i # recentPageIdx[n] => Generation(n, i) = {}

\* a full generation has been reset and the next one taken into use, past
\* the end of the array
C26_Witness ==
  /\ last.op = "Route"
  /\ last.before.idx = recentBufferSize - 1
  /\ Cardinality(last.before.rb[recentBufferSize - 1]) = entriesPerTable
  /\ recentPageIdx["N1"] = 0
  /\ Cardinality(Generation("N1", 0)) = 1

-----------------------------------------------------------------------------
(* Claims about the policy matrix and the frame check, checked under SpecRoute *)

LastChanLen == ChannelLen(last.msg)
LastName == Slice(last.msg, 2, 2 + LastChanLen)
LastBody == SliceFrom(last.msg, 2 + LastChanLen)

\* the last call was a Route that got past the length check and the loop check
Routed == last.op = "Route" /\ last.accepted /\ ~last.seen

HandlesOn(path) == SelectSeq(last.handles, LAMBDA h : h.path = path)
RoutesOn(path) == SelectSeq(last.routes, LAMBDA r : r.path = path)
HandleFailed(path) == \E i \in DOMAIN last.handles :
  last.handles[i].path = path /\ last.handles[i].err # NoErr
ForwardFailed(path) == \E i \in DOMAIN last.forwards :
  last.forwards[i].path = path /\ last.forwards[i].err # NoErr
NumEnabled(profs) == Len(SelectSeq(profs, LAMBDA p : p.Enabled))

\* what a path's list of r.forward calls must be, given the decision
ForwardsIff(path, decision, channelName) ==
  RoutesOn(path) = IF decision
                   THEN <<[path |-> path, channel |-> channelName, body |-> LastBody]>>
                   ELSE <<>>

\* C5: for a non-duplicate frame with chanLen > 0, Route calls
\* node.Handle(channelName, body) exactly when CheckChannels is set and the
\* channel is known to GetChannel, and, Handle having returned no error,
\* forwards the body exactly when (!consumed && ForwardUnknownChannels) ||
\* (consumed && ForwardConsumedChannels).
C5_ChannelMatrix ==
  (Routed /\ LastChanLen > 0) =>
    LET r == router["N1"]
        known == r.CheckChannels /\ LastName \in DOMAIN channels["N1"]
        hs == last.handles
        consumed == known /\ hs[1].tagOK
    IN  /\ known => (Len(hs) = 1 /\ hs[1].path = "channels"
                       /\ hs[1].channel = LastName /\ hs[1].body = LastBody)
        /\ ~known => hs = <<>>
        /\ ~HandleFailed("channels") =>
              ForwardsIff("channels",
                          (~consumed /\ r.ForwardUnknownChannels)
                            \/ (consumed /\ r.ForwardConsumedChannels),
                          LastName)

\* C5's case: a channel message was consumed and then forwarded
C5_Witness ==
  /\ Routed /\ LastChanLen > 0
  /\ Len(last.handles) = 1 /\ last.handles[1].tagOK /\ last.handles[1].err = NoErr
  /\ last.routes # <<>>
  /\ Len(Out["N1"]) = 1

\* C6: for a non-duplicate frame with chanLen = 0, Handle("", body) is called
\* on the content path exactly when CheckContent and the body is forwarded per
\* ForwardUnknownContent / ForwardConsumedContent; on the profile path, exactly
\* when CheckProfiles, Handle("", body) is tried once per enabled profile in
\* turn (disabled ones skipped) up to the first success, and the body is
\* forwarded per ForwardUnknownProfiles / ForwardConsumedProfiles.  (Each part
\* is stated for a Route that no earlier Handle or Forward error has ended.)
C6_PrivateMatrix ==
  (Routed /\ LastChanLen = 0) =>
    LET r == router["N1"]
        hc == HandlesOn("content")
        hp == HandlesOn("profiles")
        consumed1 == hc # <<>> /\ hc[1].tagOK
        consumed2 == \E i \in DOMAIN hp : hp[i].tagOK
        enabled == NumEnabled(profiles["N1"])
    IN  /\ Len(hc) = (IF r.CheckContent THEN 1 ELSE 0)
        /\ \A i \in DOMAIN hc : hc[i].channel = chNone /\ hc[i].body = LastBody
        /\ ~HandleFailed("content") =>
              ForwardsIff("content",
                          (~consumed1 /\ r.ForwardUnknownContent)
                            \/ (consumed1 /\ r.ForwardConsumedContent),
                          chNone)
        /\ (~HandleFailed("content") /\ ~ForwardFailed("content")) =>
              /\ ~r.CheckProfiles => hp = <<>>
              /\ r.CheckProfiles =>
                    /\ Len(hp) <= enabled
                    /\ \A i \in DOMAIN hp :
                          /\ hp[i].channel = chNone /\ hp[i].body = LastBody
                          /\ i < Len(hp) => (~hp[i].tagOK /\ hp[i].err = NoErr)
                    /\ Len(hp) < enabled =>
                          (hp # <<>> /\ (hp[Len(hp)].tagOK \/ hp[Len(hp)].err # NoErr))
              /\ ~HandleFailed("profiles") =>
                    ForwardsIff("profiles",
                                (~consumed2 /\ r.ForwardUnknownProfiles)
                                  \/ (consumed2 /\ r.ForwardConsumedProfiles),
                                chNone)

\* C6's case: with a disabled and two enabled profiles, a private message not
\* for this node is tried against both enabled profiles and then forwarded
C6_Witness ==
  /\ Routed /\ LastChanLen = 0
  /\ Len(profiles["N1"]) = 3 /\ NumEnabled(profiles["N1"]) = 2
  /\ Len(HandlesOn("content")) = 1
  /\ Len(HandlesOn("profiles")) = 2
  /\ RoutesOn("profiles") # <<>>

\* the rows of N1's outbox that hold body framed for channelName
RowsFor(channelName, body) ==
  {i \in DOMAIN outbox["N1"] :
     /\ outbox["N1"][i].channel = channelName
     /\ outbox["N1"][i].msg = Frame(channelName, body)}

\* the channels a body forwarded for channelName is enqueued under
PatchTargets(channelName) ==
  LET hits == {i \in DOMAIN Patches["N1"] : Patches["N1"][i].From = channelName}
  IN  IF hits = {} THEN <<channelName>>
      ELSE Patches["N1"][CHOOSE i \in hits : \A j \in hits : i <= j].To

\* C14: when the router forwards a body for channel c and no Forward call
\* fails: with a patch whose From is c (the first one, when there are
\* several) the body is enqueued once under each To channel of that patch and
\* not under c; with no such patch it is enqueued once under c
C14_ForwardFollowsPatch ==
  (Routed /\ \A i \in DOMAIN last.forwards : last.forwards[i].err = NoErr) =>
    \A k \in DOMAIN last.routes :
      LET c  == last.routes[k].channel
          fw == SelectSeq(last.forwards, LAMBDA f : f.path = last.routes[k].path)
          to == PatchTargets(c)
      IN  /\ [i \in DOMAIN fw |-> fw[i].channel] = to
          /\ \A i \in DOMAIN to : Cardinality(RowsFor(to[i], last.routes[k].body)) = 1
          /\ (\A i \in DOMAIN to : to[i] # c) => RowsFor(c, last.routes[k].body) = {}

\* a body for alpha forwarded where the first of two patches from alpha leads
\* to beta and gamma
C14_Witness ==
  /\ Routed /\ LastName = chAlpha
  /\ Len(Patches["N1"]) = 3
  /\ [i \in DOMAIN last.forwards |-> last.forwards[i].channel] = <<chBeta, chGamma>>
  /\ \A i \in DOMAIN last.forwards : last.forwards[i].err = NoErr
  /\ RowsFor(chBeta, LastBody) # {} /\ RowsFor(chGamma, LastBody) # {}
  /\ RowsFor(chAlpha, LastBody) = {}

\* the paths of Route in the order it takes them
PathOrder(path) == CASE path = "channels" -> 1 [] path = "content" -> 2
                     [] path = "profiles" -> 3

\* C15: a Handle or Forward error is the last call Route makes for the
\* message, and Route returns that error; with no such error Route returns
\* nil; a Handle result of (false, nil) is no error: on the channel and the
\* content path the message is then forwarded as one not consumed
C15_ErrorEndsRoute ==
  Routed =>
    /\ \A i \in DOMAIN last.handles :
         LET h == last.handles[i]
         IN  /\ h.err # NoErr =>
                  /\ i = Len(last.handles)
                  /\ last.ret = h.err
                  /\ \A j \in DOMAIN last.forwards :
                       PathOrder(last.forwards[j].path) < PathOrder(h.path)
             /\ (h.err = NoErr /\ ~h.tagOK /\ h.path = "channels") =>
                  (RoutesOn("channels") # <<>> <=> router["N1"].ForwardUnknownChannels)
             /\ (h.err = NoErr /\ ~h.tagOK /\ h.path = "content") =>
                  (RoutesOn("content") # <<>> <=> router["N1"].ForwardUnknownContent)
    /\ \A j \in DOMAIN last.forwards :
         LET f == last.forwards[j]
         IN  f.err # NoErr =>
               /\ j = Len(last.forwards)
               /\ last.ret = f.err
               /\ \A i \in DOMAIN last.handles :
                    PathOrder(last.handles[i].path) <= PathOrder(f.path)
    /\ ((\A i \in DOMAIN last.handles : last.handles[i].err = NoErr)
          /\ (\A j \in DOMAIN last.forwards : last.forwards[j].err = NoErr))
         => last.ret = NoErr

\* a Forward error on the content path ended a Route that had profiles to try
C15_Witness ==
  /\ Routed /\ last.ret # NoErr
  /\ router["N1"].CheckProfiles /\ NumEnabled(profiles["N1"]) > 0
  /\ Len(last.forwards) = 1 /\ last.forwards[1].path = "content"
  /\ last.forwards[1].err = last.ret
  /\ HandlesOn("profiles") = <<>>

\* the Handle calls of the last Route that decrypted the body
Decrypted == SelectSeq(last.handles, LAMBDA h : h.tagOK /\ h.err = NoErr)

\* the message Handle offers to Out for the last routed frame
Offered ==
  [Name |-> IF LastChanLen > 0 THEN LastName ELSE ContentName,
   IsChan |-> LastChanLen > 0,
   Content |-> SubSeq(LastBody, LuggageTagSize + 1, Len(LastBody) - 1)]

\* C16: every Handle call whose decryption succeeds returns (true, nil),
\* with or without a consumer; each such call delivers exactly one message
\* carrying the plaintext to a consumer ready on Out, and when none is ready
\* the message is dropped: Out gains as many messages as there were
\* successful calls and ready consumers, whichever is fewer
C16_HandleNeverBlocks ==
  Routed =>
    LET delivered == Min(Len(Decrypted), last.before.recv)
    IN  /\ Out["N1"] = last.before.Out \o [i \in 1..delivered |-> Offered]
        /\ receivers["N1"] = last.before.recv - delivered

\* with no consumer on Out, Handle decrypted a message and Route went on
C16_Witness ==
  /\ Routed /\ last.ret = NoErr
  /\ last.before.recv = 0
  /\ Len(Decrypted) = 1
  /\ Out["N1"] = last.before.Out
  /\ last.routes # <<>>

\* C27: when Route has returned a Handle or Forward error for a message, the
\* Route of the same message that follows immediately finds the nonce,
\* returns nil and calls neither Handle nor Forward
C27_FailedNotRoutedAgain ==
  (last.op = "Route" /\ last.retry \notin {"no repeat", NoErr}) =>
    /\ last.seen
    /\ last.ret = NoErr
    /\ last.handles = <<>>
    /\ last.forwards = <<>>
    /\ outbox["N1"] = last.before.outbox
    /\ Out["N1"] = last.before.Out

\* Handle failed to authenticate a message, which then came again
C27_Witness ==
  /\ last.op = "Route"
  /\ last.retry = "decrypt failed"
  /\ last.msg = UniCorrupt
  /\ last.ret = NoErr

\* C28: one Route consumes its message at most once: at most one of its Handle
\* calls returns true, Out gains at most one message, and no destination
\* channel is forwarded to twice
C28_ConsumedOnce ==
  Routed =>
    /\ Len(Decrypted) <= 1
    /\ Len(Out["N1"]) <= Len(last.before.Out) + 1
    /\ \A i, j \in DOMAIN last.forwards :
         last.forwards[i].channel = last.forwards[j].channel => i = j

\* C7 as stated: Route rejects with the invalid-frame error exactly when
\* len(message) < 2 + chanLen + 32.
C7_RejectBelow32 ==
  last.op = "Route" =>
    ((last.ret = ErrFrame) <=> (Len(last.msg) < 2 + LastChanLen + 32))

\* C7 amended: Route rejects a message with the invalid-frame error
\* exactly when len(message) < 2 + chanLen + 64; every
\* message at least that long is accepted for routing, and a rejected message
\* changes neither the recent buffer, nor the outbox, nor Out.
C7_RejectBelow64 ==
  last.op = "Route" =>
    /\ (last.ret = ErrFrame) <=> (Len(last.msg) < 2 + LastChanLen + 64)
    /\ Len(last.msg) >= 2 + LastChanLen + 64 => last.accepted
    /\ last.ret = ErrFrame =>
          /\ ~last.accepted
          /\ recentBuffer["N1"] = last.before.rb
          /\ recentPageIdx["N1"] = last.before.idx
          /\ outbox["N1"] = last.before.outbox
          /\ Out["N1"] = last.before.Out
          /\ receivers["N1"] = last.before.recv

\* C7's case: a frame of at least 2 + chanLen + 32 bytes is rejected by a node
\* whose recent buffer and outbox are not empty
C7_Witness ==
  /\ last.op = "Route" /\ last.ret = ErrFrame
  /\ Len(last.msg) >= 2 + LastChanLen + 32
  /\ last.before.outbox # <<>>
  /\ last.before.rb[0] # {}

-----------------------------------------------------------------------------
(* Claims about Pickup, checked under SpecPickup *)

\* the last call was a Pickup that returned a bundle and no error
PickedUp == last.op = "Pickup" /\ last.err = NoErr

RowSet(rows) == {rows[i] : i \in DOMAIN rows}

\* the outbox rows the call asked for: later than lastTime, on a given channel
Matching ==
  {r \in RowSet(outbox[last.node]) :
     /\ r.timestamp > last.lastTime
     /\ last.channels = <<>> \/ \E i \in DOMAIN last.channels : last.channels[i] = r.channel}

\* the messages the bundle in flight carries, after decrypt and decode
Carried(rpub) ==
  IF bundle.Data = <<>> THEN <<>>
  ELSE GobDecode(DecryptMessage(rpub, bundle.Data).clear).msgs

C9_Rows ==
  PickedUp =>
    LET R == RowSet(last.rows)
        M == Matching
        k == Len(last.rows)
    IN  /\ Cardinality(R) = k
        /\ R \subseteq M
        /\ k = Min(Cardinality(M), PickupLimit)
        /\ \A i \in 1..(k - 1) : last.rows[i].timestamp <= last.rows[i + 1].timestamp
        /\ \A r \in M \ R : k > 0 /\ r.timestamp >= last.rows[k].timestamp
        /\ Carried(RoutingKey("N2")) = [i \in 1..k |-> last.rows[i].msg]

\* C9: Pickup returns exactly the outbox rows with timestamp > lastTime whose
\* channel is in the given set (all channels when none is given), in ascending
\* timestamp order, at most 250 of them and then those of smallest timestamp;
\* and a Pickup step leaves the outbox as it was
C9_PickupReturnsMatching ==
  []C9_Rows /\ [][last'.op = "Pickup" => outbox' = outbox]_vars

\* a Pickup with a channel filter found more than 250 matching rows
C9_Witness ==
  /\ PickedUp
  /\ last.channels # <<>>
  /\ Len(last.rows) = PickupLimit
  /\ Cardinality(Matching) > PickupLimit
  /\ Len(outbox[last.node]) > Cardinality(Matching)

-----------------------------------------------------------------------------
(* Claims about the poll cursor, checked under SpecPoll *)

\* C3: a caller that starts from lastTime 0 and calls Pickup again with the
\* time of the previous bundle has, once a Pickup brings no more rows,
\* received every row of the outbox
C3_DrainComplete ==
  (SyncBacklog /\ PickedUp /\ last.rows = <<>>) =>
    \A i \in DOMAIN outbox["N1"] : outbox["N1"][i].msg \in got

\* C10: RunPolicy leaves both cursors at 0 when SyncBacklog is set and at -1
\* otherwise, and a Pickup with a negative lastTime returns none of the rows
\* that were in the outbox when RunPolicy ran
C10_NegativeCursorSkipsBacklog ==
  /\ (last.op = "RunPolicy" /\ last.err = NoErr) =>
        /\ lastPollLocal = (IF SyncBacklog THEN 0 ELSE -1)
        /\ lastPollRemote = (IF SyncBacklog THEN 0 ELSE -1)
  /\ (PickedUp /\ last.lastTime < 0) =>
        \A i \in DOMAIN last.rows : last.rows[i].msg \notin backlog

-----------------------------------------------------------------------------
(* Claims about RunPolicy and Stop, checked under SpecStop and SpecStopFair *)

\* the goroutines that are in the poll loop
Looping == {i \in DOMAIN workers : workers[i] \in {"loop", "turn"}}

\* C19: a RunPolicy called after a RunPolicy has returned, on a policy that
\* has not been stopped, returns the already-running error, and no second
\* poll loop runs
C19_ReentryRejected ==
  /\ (last.op = "RunPolicy" /\ last.again /\ ~last.stopped) =>
        last.err = "Policy is already running"
  /\ stopCall = "none" => Cardinality(Looping) <= 1

\* C20: with the goroutines scheduled fairly, a Stop called after RunPolicy
\* has returned (and no RunPolicy called again) returns
C20_StopReturns ==
  (stopCall = "waiting" /\ Len(workers) = 1)
    ~> (stopCall = "returned" \/ Len(workers) > 1)

-----------------------------------------------------------------------------
(* Claims about the round trip, checked under SpecSync *)

\* the bundle of Pickup(k, 0, [c]) on N1 has been dropped off on N2
RoundTrip == last.op = "Dropoff" /\ prev.op = "Pickup"

\* the source rows for the channel the Pickup named
SourceRows == SelectSeq(outbox["N1"], LAMBDA r : r.channel = prev.channels[1])

\* the destination's row for a message forwarded on the Pickup's channel
Reenqueued(m) ==
  \E j \in DOMAIN outbox["N2"] :
    outbox["N2"][j].channel = prev.channels[1] /\ outbox["N2"][j].msg = m

\* the channel prefix and the nonce of a message of the Pickup's channel
FrameHead(m) == SubSeq(m, 1, Min(Len(m), 2 + Len(prev.channels[1]) + nonceSize))

ForwardedOnce(d) ==
  d.forwards = <<[channel |-> prev.channels[1], err |-> NoErr]>> /\ Reenqueued(d.msg)

\* the policy matrix of the fresh destination: a consumed message is not
\* forwarded, any other is forwarded once on its channel
ByMatrix(d) ==
  d.routed /\ ~d.seen /\ d.ret = NoErr /\
  IF d.consumed THEN d.forwards = <<>> ELSE ForwardedOnce(d)

\* C4 as stated: after the round trip every source row for the channel has
\* been consumed or re-enqueued by the destination
C4_EveryRowDelivered ==
  RoundTrip =>
    \A i \in DOMAIN SourceRows :
      \E k \in DOMAIN last.trace :
        last.trace[k].msg = SourceRows[i].msg /\ ByMatrix(last.trace[k])

\* C4, amended: the bundle carries the source rows for the channel, all of
\* them up to 250 and else the 250 of smallest timestamp; each carried row is
\* consumed or re-enqueued by the destination according to its policy matrix,
\* unless its nonce repeats an earlier row's, or Route returns an error for
\* it, or it is shorter than 16 bytes
C4_CarriedRowsDelivered ==
  RoundTrip =>
    LET T == {last.trace[k].msg : k \in DOMAIN last.trace}
        S == {SourceRows[i].msg : i \in DOMAIN SourceRows}
    IN  /\ Len(last.trace) = Min(Len(SourceRows), PickupLimit)
        /\ Cardinality(T) = Len(last.trace)
        /\ T \subseteq S
        /\ \A i \in DOMAIN SourceRows :
             SourceRows[i].msg \notin T =>
               \A j \in DOMAIN prev.rows :
                 prev.rows[j].timestamp <= SourceRows[i].timestamp
        /\ \A k \in DOMAIN last.trace :
             LET d == last.trace[k]
             IN  \/ ByMatrix(d)
                 \/ d.routed /\ d.seen /\ d.ret = NoErr /\ ~d.consumed /\ d.forwards = <<>>
                      /\ \E j \in 1..(k - 1) :
                           FrameHead(last.trace[j].msg) = FrameHead(d.msg)
                 \/ d.routed /\ ~d.seen /\ d.ret # NoErr /\ ~d.consumed /\ d.forwards = <<>>
                 \/ ~d.routed /\ Len(d.msg) < MinMsgLen /\ ~d.consumed /\ d.forwards = <<>>

\* a round trip that carried 250 rows of a larger outbox, consumed by N2
C4_Witness ==
  /\ RoundTrip
  /\ Len(SourceRows) > PickupLimit
  /\ Len(last.trace) = PickupLimit
  /\ \A k \in DOMAIN last.trace : last.trace[k].consumed
  /\ Len(Out["N2"]) = 1

\* C11: once the envelope of the bundle has decrypted and decoded, Dropoff
\* returns nil whatever Route returned for the messages; every message of the
\* bundle of at least 16 bytes is routed, also after one whose Route returned
\* an error, and every shorter message is skipped without being routed
C11_DropoffSwallowsRouteErrors ==
  (last.op = "Dropoff" /\ bundle.Data # <<>>) =>
    /\ last.err = NoErr
    /\ [k \in DOMAIN last.trace |-> last.trace[k].msg] = Carried(RoutingKey("N2"))
    /\ \A k \in DOMAIN last.trace :
         last.trace[k].routed <=> Len(last.trace[k].msg) >= MinMsgLen

\* a Dropoff in which Route returned an error for one message and nil for a
\* later one
C11_Witness ==
  /\ last.op = "Dropoff" /\ last.err = NoErr
  /\ \E k, j \in DOMAIN last.trace :
       /\ k < j
       /\ last.trace[k].routed /\ last.trace[k].ret # NoErr
       /\ last.trace[j].routed /\ last.trace[j].ret = NoErr

-----------------------------------------------------------------------------
(* Claims about the outbox, checked under SpecOutbox *)

\* Forward has been called twice in a row with the same channel and bytes
ForwardedTwice ==
  /\ last.op = "Forward" /\ prev.op = "Forward"
  /\ last.impl = prev.impl /\ last.channel = prev.channel /\ last.body = prev.body

\* the outbox rows of the pair the last Forward was called with
PairRows ==
  {i \in DOMAIN outbox["N1"] :
     /\ outbox["N1"][i].channel = last.channel
     /\ outbox["N1"][i].msg = Frame(last.channel, last.body)}

C13_RowsFramed ==
  \A i \in DOMAIN outbox["N1"] :
    LET r == outbox["N1"][i]
    IN  /\ Len(r.msg) >= 2 + Len(r.channel)
        /\ r.msg[1] * 256 + r.msg[2] = Len(r.channel)
        /\ SubSeq(r.msg, 3, 2 + Len(r.channel)) = r.channel

-----------------------------------------------------------------------------
(* Claims about the channel cache, checked under SpecChannels *)

\* C21: after any sequence of AddChannel and DeleteChannel calls the cache
\* channelKeys holds exactly the channels of the store, and Handle and
\* SendChannel fail as unknown exactly for the channels the store has not
C21_CacheMatchesStore ==
  /\ channelKeys["N1"] = channels["N1"]
  /\ last.op = "SendChannel" =>
       (last.err = "No public key for Channel"
          <=> last.channel \notin DOMAIN channels["N1"])
  /\ last.op = "Handle" =>
       (last.err = "Cannot Handle message for Unknown Channel"
          <=> last.channel \notin DOMAIN channels["N1"])

-----------------------------------------------------------------------------
(* Claims about chunking, checked under SpecChunk *)

\* SendChunked has returned nil
Chunked == last.op = "SendChunked" /\ last.err = NoErr

\* the little-endian uint32 after the stream id of a record
RecordNum(m) ==
  m.Content[5] + 256 * m.Content[6] + 65536 * m.Content[7] + 16777216 * m.Content[8]

RecordData(m) == SubSeq(m.Content, ChunkHeaderSize + 1, Len(m.Content))

HeaderRecords == SelectSeq(last.sent, LAMBDA m : m.StreamHeader)
ChunkRecs == SelectSeq(last.sent, LAMBDA m : ~m.StreamHeader)

\* the data of the chunk records numbered n, n + 1, ..., joined
RECURSIVE JoinFrom(_)
JoinFrom(n) ==
  IF \E i \in DOMAIN ChunkRecs : RecordNum(ChunkRecs[i]) = n
  THEN RecordData(ChunkRecs[CHOOSE i \in DOMAIN ChunkRecs : RecordNum(ChunkRecs[i]) = n])
         \o JoinFrom(n + 1)
  ELSE <<>>

\* ceil(a / b)
CeilDiv(a, b) == (a \div b) + (IF a % b = 0 THEN 0 ELSE 1)

\* C17: for a chunk size S >= 9 and a SendChunked that returns nil, the data
\* of the chunk records joined in chunkNum order is the payload, the chunk
\* numbers are 0, 1, ... without gap or repeat, and the header's numChunks is
\* ceil(len(P) / (S - 8)) and the number of chunk records; 131072 bytes at
\* S = 65544 are sent as two chunks of 65536 bytes
C17_ChunksRebuildPayload ==
  Chunked =>
    /\ (Len(last.payload) = 2 * DefaultChunkSize
          /\ last.chunkSize = DefaultChunkSize + ChunkHeaderSize) =>
         /\ Len(ChunkRecs) = 2
         /\ \A i \in DOMAIN ChunkRecs : Len(RecordData(ChunkRecs[i])) = DefaultChunkSize
    /\ JoinFrom(0) = last.payload
    /\ {RecordNum(ChunkRecs[i]) : i \in DOMAIN ChunkRecs} = 0..(Len(ChunkRecs) - 1)
    /\ Len(ChunkRecs) = CeilDiv(Len(last.payload), last.chunkSize - ChunkHeaderSize)
    /\ Len(HeaderRecords) = (IF last.payload = <<>> THEN 0 ELSE 1)
    /\ \A i \in DOMAIN HeaderRecords :
         /\ RecordNum(HeaderRecords[i]) = Len(ChunkRecs)
         /\ last.sent[1] = HeaderRecords[i]

\* a payload sent as two whole chunks and a shorter third one
C17_Witness ==
  /\ Chunked
  /\ Len(ChunkRecs) = 3
  /\ Len(RecordData(ChunkRecs[3])) < Len(RecordData(ChunkRecs[1]))
  /\ RecordNum(HeaderRecords[1]) = 3

\* the payload bytes a chunk record carries after those of the chunks before it
Capacity == last.chunkSize - ChunkHeaderSize

\* C25: for a chunk size S >= 9 no record handed to SendMsg is longer than S:
\* the header record is 8 bytes and comes first, a full chunk is exactly S
\* bytes, the remainder chunk is 8 bytes and fewer than S - 8 payload bytes,
\* and the chunk records carry the numbers 0, 1, ... in the order sent
C25_RecordsFit ==
  last.op = "SendChunked" =>
    \A i \in DOMAIN last.sent :
      /\ Len(last.sent[i].Content) <= last.chunkSize
      /\ last.sent[i].StreamHeader <=> i = 1
      /\ i = 1 => Len(last.sent[i].Content) = ChunkHeaderSize
      /\ i > 1 =>
           /\ RecordNum(last.sent[i]) = i - 2
           /\ IF (i - 1) * Capacity <= Len(last.payload)
              THEN Len(last.sent[i].Content) = last.chunkSize
              ELSE /\ Len(last.sent[i].Content)
                        = ChunkHeaderSize + Len(last.payload) - (i - 2) * Capacity
                   /\ Len(last.sent[i].Content) > ChunkHeaderSize
                   /\ Len(last.sent[i].Content) < last.chunkSize

\* a header, a full chunk and a remainder chunk have been sent
C25_Witness ==
  /\ Chunked
  /\ Len(last.sent) = 3
  /\ last.sent[1].StreamHeader
  /\ Len(last.sent[2].Content) = last.chunkSize
  /\ Len(last.sent[3].Content) < last.chunkSize

\* C18 as stated: the chunk size is the least ByteLimit of the transports and
\* never below 65536
C18_ChunkSizeFloor ==
  last.op = "ChunkSize" =>
    /\ last.ret >= DefaultChunkSize
    /\ last.limits # <<>> =>
         /\ \E i \in DOMAIN last.limits : last.ret = last.limits[i]
         /\ \A i \in DOMAIN last.limits : last.ret <= last.limits[i]

\* C18, amended: the chunk size is the least of 65536 and the ByteLimits of
\* the transports: never above 65536, and 65536 for a node with no policy
C18_ChunkSizeCeiling ==
  last.op = "ChunkSize" =>
    /\ last.ret <= DefaultChunkSize
    /\ \A i \in DOMAIN last.limits : last.ret <= last.limits[i]
    /\ \/ last.ret = DefaultChunkSize
       \/ \E i \in DOMAIN last.limits : last.ret = last.limits[i]

\* a node with a transport of 1000 bytes and one of 100000 bytes
C18_Witness ==
  /\ last.op = "ChunkSize"
  /\ last.limits = <<100000, 1000>>
  /\ last.ret = 1000

-----------------------------------------------------------------------------
(* Concurrent calls of seenRecently                                          *)

\* both goroutines have made one call, with the same nonce, and are back
BothCalledOnce ==
  /\ \A g \in Goroutines : calls[g].pc = "idle" /\ calls[g].made = 1
  /\ \A g, h \in Goroutines : calls[g].nonce = calls[h].nonce

\* C23 as stated: among calls of seenRecently that run at the same time with
\* one nonce that was not seen before, exactly one returns false and the
\* others return true.
C23_OneCallUnseen ==
  BothCalledOnce =>
    Cardinality({g \in Goroutines : ~calls[g].rets[1].seen}) = 1

\* C29 as stated: whatever the interleaving of the calls, the index of the
\* generation in use stays within 0..recentBufferSize-1 and no call indexes
\* the generations out of bounds.
C29_IndexInBounds ==
  /\ recentPageIdx["N1"] \in 0..(recentBufferSize - 1)
  /\ \A g \in Goroutines : calls[g].pc # "panic"

-----------------------------------------------------------------------------
(* Node.Stop                                                                 *)

\* C24 as stated: Node.Stop joins the node's workers before it returns: once
\* Stop has returned the input loop takes no further message from In and
\* makes no further Send or SendChannel, and the node's policy has stopped.
C24_StopJoinsInputLoop ==
  /\ last.op = "InputLoop" => ~last.stopped
  /\ nodeStop = "returned" => stopCall = "returned" /\ ~isRunning

====
